---- MODULE Spec2Model ----
(***************************************************************************)
(* Session orchestration layer of the block-pushing puzzle game:           *)
(* per-frame update loop, scene loading, key / teleporter / locked door    *)
(* triggers, the undo history and the save / load store.                   *)
(*                                                                         *)
(* Lengths are in hundredths of a world unit (0.8 units = 80).             *)
(* An optional object (null or an object in the source) is a sequence of   *)
(* length 0 or 1.                                                          *)
(***************************************************************************)
EXTENDS Integers, Sequences, FiniteSets, TLC

VARIABLES world, physicsObjects, gameOver, keySpawned, currentScene,
          moveCount, actionHistory, inventory, storage,
          pendingLoads, pendingDoors, doorModuleLoaded, loseScreen, timers,
          configFile, cachedConfig, worldBodies, testApi,
          lastOp, before

vars == <<world, physicsObjects, gameOver, keySpawned, currentScene,
          moveCount, actionHistory, inventory, storage,
          pendingLoads, pendingDoors, doorModuleLoaded, loseScreen, timers,
          configFile, cachedConfig, worldBodies, testApi,
          lastOp, before>>

\* ------------------------------------------------------------------ bounds
MaxHistory == 2
MaxMoveCount == 2
MaxTimers == 2
MaxPendingDoors == 2

\* ------------------------------------------------------- program constants
PlatformY == -100
PlatformHalfHeight == 25
PlatformHalfSize == 500
GoalThreshold == 80
WinDistance == 120
MinMoveDistance == 10
FadeStart == 100
FadeStep == 2
MaxSlots == 5

None == <<>>
Some(v) == <<v>>
IsNone(o) == o = <<>>
IsSome(o) == o # <<>>
Val(o) == o[1]

Vec(x, y, z) == [x |-> x, y |-> y, z |-> z]

Sq(n) == n * n
DistSq(a, b) == Sq(a.x - b.x) + Sq(a.y - b.y) + Sq(a.z - b.z)
Abs(n) == IF n < 0 THEN -n ELSE n

\* ---------------------------------------------------------------- entities
PlatformTop == PlatformY + PlatformHalfHeight

Platform == [top |-> PlatformTop, halfSize |-> PlatformHalfSize,
             pos |-> Vec(0, PlatformY, 0)]

Scene1PlayerStart == Vec(0, PlatformTop + 30, 200)
Scene2PlayerStart == Vec(0, PlatformTop + 30, -200)
BlockStart == Vec(0, PlatformTop + 50, 0)
GoalPos == Vec(300, PlatformTop + 5, -200)
Teleporter1Pos == Vec(-400, PlatformTop + 40, -400)
Teleporter2Pos == Vec(400, PlatformTop + 40, -400)
DoorPos == Vec(-400, PlatformTop, 300)
KeySpawnPos == Vec(0, PlatformTop + 100, 0)

Player(pos) == [pos |-> pos, linvel |-> 0, angvel |-> 0]
Block == [pos |-> BlockStart, linvel |-> 0, angvel |-> 0]
Goal == [pos |-> GoalPos]
Teleporter(pos, target) == [pos |-> pos, onPlayerEnter |-> target]
Key(pos, handler) == [pos |-> pos, pickedUp |-> FALSE, hitbox |-> TRUE,
                      onClick |-> handler]
LockedDoor == [pos |-> DoorPos, unlocked |-> FALSE, fadedOut |-> FALSE,
               fadeAmount |-> FadeStart, collider |-> TRUE, onWin |-> TRUE]

NoObjects == [platform |-> None, block |-> None, player |-> None,
              goal |-> None, key |-> None, teleporter |-> None,
              lockedDoor |-> None]

\* The rigid bodies in the physics world, counted by the kind of entity whose
\* constructor created them; each carries the one collider created with it.
NoBodies == [platform |-> 0, block |-> 0, player |-> 0, goal |-> 0, key |-> 0,
             teleporter |-> 0, lockedDoor |-> 0]

\* world.createRigidBody / world.createCollider in an entity's constructor.
Created(bodies, kinds) ==
    [k \in DOMAIN bodies |-> IF k \in kinds THEN bodies[k] + 1 ELSE bodies[k]]

\* world.removeCollider / world.removeRigidBody on the entities of the kinds.
Removed(bodies, kinds) ==
    [k \in DOMAIN bodies |-> IF k \in kinds THEN bodies[k] - 1 ELSE bodies[k]]

\* ------------------------------------------ positions the physics can yield
\* World.step() is the physics engine's; a moving body ends a step at one of
\* these places: its spawn point, an interior point, a sensor, or beyond the
\* platform edge.
OffPlatformPos(y) == Vec(PlatformHalfSize + 100, y, 0)
InteriorPos == Vec(-200, PlatformTop + 30, 100)
AtDoorPos == Vec(-400, PlatformTop + 30, 300)
AtTeleporter1Pos == Vec(-400, PlatformTop + 30, -400)
AtTeleporter2Pos == Vec(400, PlatformTop + 30, -400)
PlayerPoints(sceneNumber) ==
    IF sceneNumber = 1
    THEN {Scene1PlayerStart, InteriorPos, AtTeleporter1Pos,
          OffPlatformPos(PlatformTop + 30)}
    ELSE {Scene2PlayerStart, AtDoorPos, AtTeleporter2Pos,
          OffPlatformPos(PlatformTop + 30)}
AtGoalPos == Vec(300, PlatformTop + 50, -200)
BlockPoints == {BlockStart, AtGoalPos,
                OffPlatformPos(PlatformTop + 50)}

\* ------------------------------------------------------------ the session
State == [world |-> world, physicsObjects |-> physicsObjects,
          gameOver |-> gameOver, keySpawned |-> keySpawned,
          currentScene |-> currentScene, moveCount |-> moveCount,
          actionHistory |-> actionHistory, inventory |-> inventory,
          storage |-> storage, pendingLoads |-> pendingLoads,
          pendingDoors |-> pendingDoors,
          doorModuleLoaded |-> doorModuleLoaded, loseScreen |-> loseScreen,
          timers |-> timers, configFile |-> configFile,
          cachedConfig |-> cachedConfig, worldBodies |-> worldBodies,
          testApi |-> testApi]

Apply(s) ==
    /\ world' = s.world
    /\ physicsObjects' = s.physicsObjects
    /\ gameOver' = s.gameOver
    /\ keySpawned' = s.keySpawned
    /\ currentScene' = s.currentScene
    /\ moveCount' = s.moveCount
    /\ actionHistory' = s.actionHistory
    /\ inventory' = s.inventory
    /\ storage' = s.storage
    /\ pendingLoads' = s.pendingLoads
    /\ pendingDoors' = s.pendingDoors
    /\ doorModuleLoaded' = s.doorModuleLoaded
    /\ loseScreen' = s.loseScreen
    /\ timers' = s.timers
    /\ configFile' = s.configFile
    /\ cachedConfig' = s.cachedConfig
    /\ worldBodies' = s.worldBodies
    /\ testApi' = s.testApi

\* --------------------------------------------------------- save / load store
\* JSON.stringify / JSON.parse of a snapshot made of numbers, booleans, null,
\* plain objects and arrays.
Stringify(data) == [json |-> data]
Parse(str) == str.json

\* A stored entry that is not JSON: JSON.parse throws on it.
Garbage == [text |-> "garbage"]
CanParse(str) == "json" \in DOMAIN str

getSaveData(body) == Vec(body.pos.x, body.pos.y, body.pos.z)
KeyGetSaveData(key) == [pickedUp |-> key.pickedUp]

saveGame(s) ==
    LET o == s.physicsObjects IN
    IF IsNone(o.player) THEN s
    ELSE [s EXCEPT !.storage = Some(Stringify(
            [scene |-> s.currentScene,
             player |-> getSaveData(Val(o.player)),
             block |-> IF IsSome(o.block) THEN Some(getSaveData(Val(o.block)))
                       ELSE None,
             key |-> IF IsSome(o.key) THEN KeyGetSaveData(Val(o.key))
                     ELSE [pickedUp |-> TRUE],
             moveCount |-> s.moveCount,
             actionHistory |-> s.actionHistory]))]

loadFromData(body, data) == [body EXCEPT !.pos = Vec(data.x, data.y, data.z)]
KeyLoadFromData(key, data) ==
    IF data.pickedUp THEN [key EXCEPT !.pickedUp = TRUE, !.hitbox = FALSE]
    ELSE key

\* ------------------------------------------------------- physics config
\* A JSON value read from a config field: a number (in hundredths), NaN, a
\* value of another type, or no value at all.
Num(n) == [kind |-> "num", v |-> n]
NotANumber == [kind |-> "nan", v |-> 0]
Str == [kind |-> "str", v |-> 0]
Absent == [kind |-> "absent", v |-> 0]

\* typeof x === 'number' && !isNaN(x)
IsNumber(x) == x.kind = "num"

DEFAULT_CONFIG ==
    [player |-> Some([friction |-> Num(75), minForce |-> Num(100),
                      maxForce |-> Num(300), linearDamping |-> Num(30),
                      angularDamping |-> Num(80)]),
     block |-> Some([linearDamping |-> Num(20), angularDamping |-> Num(30),
                     friction |-> Num(30), density |-> Num(50)])]

\* validatePlayerConfig that does not compare maxForce with minForce (the
\* mutation C13 is tested against).
validatePlayerConfigUnordered(playerConfig) ==
    IF IsNone(playerConfig) THEN FALSE
    ELSE LET c == Val(playerConfig) IN
         /\ \A prop \in {"friction", "minForce", "maxForce", "linearDamping",
                         "angularDamping"} : IsNumber(c[prop])
         /\ ~(c.friction.v < 0 \/ c.friction.v > 100)
         /\ ~(c.minForce.v <= 0)
         /\ ~(c.maxForce.v <= 0)
         /\ ~(c.linearDamping.v < 0)
         /\ ~(c.angularDamping.v < 0)

validatePlayerConfig(playerConfig) ==
    IF IsNone(playerConfig) THEN FALSE
    ELSE LET c == Val(playerConfig) IN
         /\ \A prop \in {"friction", "minForce", "maxForce", "linearDamping",
                         "angularDamping"} : IsNumber(c[prop])
         /\ ~(c.friction.v < 0 \/ c.friction.v > 100)
         /\ ~(c.minForce.v <= 0)
         /\ ~(c.maxForce.v <= 0 \/ c.maxForce.v < c.minForce.v)
         /\ ~(c.linearDamping.v < 0)
         /\ ~(c.angularDamping.v < 0)

validateBlockConfig(blockConfig) ==
    IF IsNone(blockConfig) THEN FALSE
    ELSE LET c == Val(blockConfig) IN
         /\ \A prop \in {"linearDamping", "angularDamping", "friction",
                         "density"} : IsNumber(c[prop])
         /\ ~(c.linearDamping.v < 0)
         /\ ~(c.angularDamping.v < 0)
         /\ ~(c.friction.v < 0 \/ c.friction.v > 100)
         /\ ~(c.density.v <= 0)

validateConfig(config) ==
    validatePlayerConfig(config.player) /\ validateBlockConfig(config.block)

\* loadPhysicsConfig that hands on whatever the file holds (the mutation C14
\* is tested against).
loadPhysicsConfigUnvalidated(file) ==
    IF IsNone(file) THEN DEFAULT_CONFIG ELSE Val(file)

\* The file is None when the import fails.
loadPhysicsConfig(file) ==
    IF IsNone(file) THEN DEFAULT_CONFIG
    ELSE IF validateConfig(Val(file)) THEN Val(file)
    ELSE DEFAULT_CONFIG

getPlayerConfigFromLoader(config) ==
    IF validatePlayerConfig(config.player) THEN Val(config.player)
    ELSE Val(DEFAULT_CONFIG.player)

getBlockConfigFromLoader(config) ==
    IF validateBlockConfig(config.block) THEN Val(config.block)
    ELSE Val(DEFAULT_CONFIG.block)

\* loadConfig: the first call loads the file and caches the result.
loadConfig(s) ==
    IF IsSome(s.cachedConfig) THEN s
    ELSE [s EXCEPT !.cachedConfig = Some(loadPhysicsConfig(s.configFile))]

getPlayerConfig(s) == getPlayerConfigFromLoader(Val(loadConfig(s).cachedConfig))
getBlockConfig(s) == getBlockConfigFromLoader(Val(loadConfig(s).cachedConfig))

\* ------------------------------------------------------------------ scenes
\* The kinds of entity physicsObjects refers to.
Referenced(o) == {k \in DOMAIN o : IsSome(o[k])}

\* window.__TEST_API__.physicsObjects is "unset" before create assigns it,
\* "live" while it is the object the module variable physicsObjects refers
\* to, and "stale" once clearScene has pointed the variable at a new object.
Detached(api) == IF api = "live" THEN "stale" ELSE api

\* clearScene that leaves the action history alone (the mutation C17 is
\* tested against).
clearSceneKeepsHistory(s) ==
    [s EXCEPT !.worldBodies = IF s.world
                              THEN Removed(s.worldBodies, Referenced(s.physicsObjects))
                              ELSE s.worldBodies,
              !.physicsObjects = NoObjects,
              !.testApi = Detached(s.testApi),
              !.keySpawned = FALSE,
              !.gameOver = FALSE]

\* clearScene that empties the inventory with the scene (the mutation C30 is
\* tested against).
clearSceneClearsInventory(s) ==
    [s EXCEPT !.worldBodies = IF s.world
                              THEN Removed(s.worldBodies, Referenced(s.physicsObjects))
                              ELSE s.worldBodies,
              !.physicsObjects = NoObjects,
              !.testApi = Detached(s.testApi),
              !.keySpawned = FALSE,
              !.gameOver = FALSE,
              !.actionHistory = <<>>,
              !.inventory = <<>>]

clearScene(s) ==
    [s EXCEPT !.worldBodies = IF s.world
                              THEN Removed(s.worldBodies, Referenced(s.physicsObjects))
                              ELSE s.worldBodies,
              !.physicsObjects = NoObjects,
              !.testApi = Detached(s.testApi),
              !.keySpawned = FALSE,
              !.gameOver = FALSE,
              !.actionHistory = <<>>]

\* loadScene up to its first await: the old scene is torn down and the
\* construction of the new one is left pending.
\* loadScene that builds the requested scene without recording it as the
\* current one (the mutation C25 is tested against).
loadSceneKeepsCurrent(s, sceneNumber, data) ==
    LET c == clearScene(s) IN
    [c EXCEPT !.pendingLoads = Append(c.pendingLoads,
                  [scene |-> sceneNumber, data |-> data, init |-> FALSE])]

loadScene(s, sceneNumber, data) ==
    LET c == clearScene(s) IN
    [c EXCEPT !.currentScene = sceneNumber,
              !.pendingLoads = Append(c.pendingLoads,
                  [scene |-> sceneNumber, data |-> data, init |-> FALSE])]

loadScene1(s) ==
    [loadConfig(s) EXCEPT
        !.worldBodies = Created(s.worldBodies,
                                {"platform", "block", "goal", "teleporter", "player"}),
        !.physicsObjects =
        [s.physicsObjects EXCEPT
            !.platform = Some(Platform),
            !.block = Some(Block),
            !.goal = Some(Goal),
            !.teleporter = Some(Teleporter(Teleporter1Pos, 2)),
            !.player = Some(Player(Scene1PlayerStart))]]

\* The callback of import('./lockedDoor.js'): the door is built on the
\* platform that exists when it runs; without one it throws and builds nothing.
createDoor(s) ==
    IF IsNone(s.physicsObjects.platform) THEN s
    ELSE [s EXCEPT !.physicsObjects.lockedDoor = Some(LockedDoor),
                   !.worldBodies = Created(s.worldBodies, {"lockedDoor"})]

\* A module that is already loaded resolves its import before the next frame;
\* the first import waits for the network.
importLockedDoor(s) ==
    IF s.doorModuleLoaded THEN createDoor(s)
    ELSE [s EXCEPT !.pendingDoors = s.pendingDoors + 1]

loadScene2(s) ==
    importLockedDoor(
      [loadConfig(s) EXCEPT
        !.worldBodies = Created(s.worldBodies, {"platform", "teleporter", "player"}),
        !.physicsObjects =
        [s.physicsObjects EXCEPT
            !.platform = Some(Platform),
            !.teleporter = Some(Teleporter(Teleporter2Pos, 1)),
            !.player = Some(Player(Scene2PlayerStart))]])

\* The module arrives and every waiting callback runs, one after the other.
RECURSIVE createDoors(_, _)
createDoors(s, callbacks) ==
    IF callbacks = 0 THEN s ELSE createDoors(createDoor(s), callbacks - 1)

doorModuleArrives(s) ==
    createDoors([s EXCEPT !.doorModuleLoaded = TRUE, !.pendingDoors = 0],
                s.pendingDoors)

\* loadGame's continuation once the scene is built.
applySaved(s, data) ==
    LET o == s.physicsObjects
        p == IF IsSome(o.player)
             THEN Some(loadFromData(Val(o.player), data.player)) ELSE o.player
        b == IF IsSome(o.block) /\ IsSome(data.block)
             THEN Some(loadFromData(Val(o.block), Val(data.block))) ELSE o.block
        k == IF IsSome(o.key)
             THEN Some(KeyLoadFromData(Val(o.key), data.key)) ELSE o.key
    IN [s EXCEPT !.physicsObjects =
            [o EXCEPT !.player = p, !.block = b, !.key = k]]

\* data.scene || 1: a scene id of 0 (or none) reads as scene 1; any other
\* number is taken as it is.
SceneOrDefault(data) == IF data.scene = 0 THEN 1 ELSE data.scene

\* loadGame that goes on to load the current scene when there is nothing to
\* restore (the mutation C11 is tested against).
loadGameAlwaysLoads(s) ==
    IF IsNone(s.storage) \/ ~CanParse(Val(s.storage))
    THEN loadScene(s, s.currentScene, None)
    ELSE LET data == Parse(Val(s.storage)) IN
         loadScene([s EXCEPT !.currentScene = SceneOrDefault(data),
                             !.moveCount = data.moveCount,
                             !.actionHistory = data.actionHistory],
                   SceneOrDefault(data), Some(data))

\* On an entry that does not parse JSON.parse throws before anything is
\* assigned, and create's catch block only renders.
loadGame(s) ==
    IF IsNone(s.storage) THEN s
    ELSE IF ~CanParse(Val(s.storage)) THEN s
    ELSE LET data == Parse(Val(s.storage)) IN
         loadScene([s EXCEPT !.currentScene = SceneOrDefault(data),
                             !.moveCount = data.moveCount,
                             !.actionHistory = data.actionHistory],
                   SceneOrDefault(data), Some(data))

\* The rest of a pending load: build the scene, then run whatever awaited it.
\* create after initPhysics has returned: loadGame, then the test API is
\* assigned; when JSON.parse throws in loadGame the assignment is skipped.
createAfterInitPhysics(s) ==
    IF IsSome(s.storage) /\ ~CanParse(Val(s.storage)) THEN loadGame(s)
    ELSE [loadGame(s) EXCEPT !.testApi = "live"]

finishLoad(s) ==
    LET job == Head(s.pendingLoads)
        r == [s EXCEPT !.pendingLoads = Tail(s.pendingLoads)]
        built == IF job.scene = 1 THEN loadScene1(r)
                 ELSE IF job.scene = 2 THEN loadScene2(r)
                 ELSE r
    IN IF job.init THEN createAfterInitPhysics(built)
       ELSE IF IsSome(job.data) THEN applySaved(built, Val(job.data))
       ELSE built

\* --------------------------------------------------------------- inventory
addItem(items, type) ==
    IF Len(items) >= MaxSlots THEN items ELSE Append(items, type)

hasItem(items, type) == \E i \in 1..Len(items) : items[i] = type

\* Index of the most recently added item of the type, 0 if there is none.
LastIndexOf(items, type) ==
    IF hasItem(items, type)
    THEN CHOOSE i \in 1..Len(items) :
            /\ items[i] = type
            /\ \A j \in (i+1)..Len(items) : items[j] # type
    ELSE 0

removeLastItem(items, type) ==
    LET i == LastIndexOf(items, type) IN
    IF i = 0 THEN items
    ELSE SubSeq(items, 1, i - 1) \o SubSeq(items, i + 1, Len(items))

clearInventory(items) == <<>>

KeyCount(items) == Cardinality({i \in 1..Len(items) : items[i] = "key"})

\* ------------------------------------------------------------ undo history
MoveRecord(prevPos, prevBlockPos, keyWasSpawned) ==
    [type |-> "move",
     data |-> [previousPosition |-> prevPos,
               previousBlockPosition |-> prevBlockPos,
               keyWasSpawned |-> keyWasSpawned]]

KeyPickupRecord(pos) ==
    [type |-> "keyPickup", data |-> [keyPosition |-> pos]]

trackMoveAction(s, previousPosition) ==
    LET o == s.physicsObjects
        previousBlockPosition ==
            IF IsSome(o.block) THEN Some(getSaveData(Val(o.block))) ELSE None
    IN [s EXCEPT !.actionHistory = Append(s.actionHistory,
            MoveRecord(previousPosition, previousBlockPosition, s.keySpawned))]

incrementMoveCount(s) == [s EXCEPT !.moveCount = s.moveCount + 1]

Max(a, b) == IF a >= b THEN a ELSE b

Stopped(body, pos) == [body EXCEPT !.pos = pos, !.linvel = 0, !.angvel = 0]

\* undoMove without the block branch (the mutation C1 is tested against).
undoMoveSkipsBlock(s, last) ==
    LET o == s.physicsObjects
        d == last.data
        despawn == s.keySpawned /\ ~d.keyWasSpawned
    IN IF IsNone(o.player) THEN s
       ELSE [s EXCEPT
              !.physicsObjects =
                 [o EXCEPT
                    !.player = Some(Stopped(Val(o.player), d.previousPosition)),
                    !.key = IF despawn THEN None ELSE o.key],
              !.keySpawned = IF despawn THEN FALSE ELSE s.keySpawned,
              !.worldBodies = IF despawn /\ IsSome(o.key)
                              THEN Removed(s.worldBodies, {"key"})
                              ELSE s.worldBodies,
              !.moveCount = Max(0, s.moveCount - 1)]

\* undoMove that clears keySpawned only along with a key it finds (the
\* mutation C7 is tested against).
undoMoveKeepsFlag(s, last) ==
    LET o == s.physicsObjects
        d == last.data
        restoreBlock == IsSome(o.block) /\ IsSome(d.previousBlockPosition)
        despawn == s.keySpawned /\ ~d.keyWasSpawned /\ IsSome(o.key)
    IN IF IsNone(o.player) THEN s
       ELSE [s EXCEPT
              !.physicsObjects =
                 [o EXCEPT
                    !.player = Some(Stopped(Val(o.player), d.previousPosition)),
                    !.block = IF restoreBlock
                              THEN Some(Stopped(Val(o.block),
                                                Val(d.previousBlockPosition)))
                              ELSE o.block,
                    !.key = IF despawn THEN None ELSE o.key],
              !.keySpawned = IF despawn THEN FALSE ELSE s.keySpawned,
              !.worldBodies = IF despawn /\ IsSome(o.key)
                              THEN Removed(s.worldBodies, {"key"})
                              ELSE s.worldBodies,
              !.moveCount = Max(0, s.moveCount - 1)]

undoMove(s, last) ==
    LET o == s.physicsObjects
        d == last.data
        restoreBlock == IsSome(o.block) /\ IsSome(d.previousBlockPosition)
        despawn == s.keySpawned /\ ~d.keyWasSpawned
    IN IF IsNone(o.player) THEN s
       ELSE [s EXCEPT
              !.physicsObjects =
                 [o EXCEPT
                    !.player = Some(Stopped(Val(o.player), d.previousPosition)),
                    !.block = IF restoreBlock
                              THEN Some(Stopped(Val(o.block),
                                                Val(d.previousBlockPosition)))
                              ELSE o.block,
                    !.key = IF despawn THEN None ELSE o.key],
              !.keySpawned = IF despawn THEN FALSE ELSE s.keySpawned,
              !.worldBodies = IF despawn /\ IsSome(o.key)
                              THEN Removed(s.worldBodies, {"key"})
                              ELSE s.worldBodies,
              !.moveCount = Max(0, s.moveCount - 1)]

\* undoKeyPickup that gives the item back but respawns nothing (the mutation
\* C8 is tested against).
undoKeyPickupWithoutRespawn(s, last) ==
    [s EXCEPT !.inventory = removeLastItem(s.inventory, "key")]

\* undoKeyPickup that also takes a move off the counter (the mutation C34 is
\* tested against).
undoKeyPickupCountsDown(s, last) ==
    LET o == s.physicsObjects
        r == [s EXCEPT !.inventory = removeLastItem(s.inventory, "key"),
                       !.moveCount = Max(0, s.moveCount - 1)]
    IN IF IsNone(o.key)
       THEN [r EXCEPT
              !.physicsObjects =
                 [o EXCEPT !.key = Some(Key(last.data.keyPosition, "respawn"))],
              !.worldBodies = Created(s.worldBodies, {"key"}),
              !.keySpawned = TRUE]
       ELSE r

undoKeyPickup(s, last) ==
    LET o == s.physicsObjects
        r == [s EXCEPT !.inventory = removeLastItem(s.inventory, "key")]
    IN IF IsNone(o.key)
       THEN [r EXCEPT
              !.physicsObjects =
                 [o EXCEPT !.key = Some(Key(last.data.keyPosition, "respawn"))],
              !.worldBodies = Created(s.worldBodies, {"key"}),
              !.keySpawned = TRUE]
       ELSE r

\* undoLastAction that takes the oldest record (shift instead of pop; the
\* mutation C32 is tested against).
undoLastActionOldestFirst(s) ==
    IF Len(s.actionHistory) = 0 THEN s
    ELSE LET lastAction == s.actionHistory[1]
             popped == [s EXCEPT !.actionHistory = Tail(s.actionHistory)]
         IN saveGame(IF lastAction.type = "move"
                     THEN undoMove(popped, lastAction)
                     ELSE undoKeyPickup(popped, lastAction))

undoLastAction(s) ==
    IF Len(s.actionHistory) = 0 THEN s
    ELSE LET n == Len(s.actionHistory)
             lastAction == s.actionHistory[n]
             popped == [s EXCEPT !.actionHistory = SubSeq(s.actionHistory, 1, n - 1)]
         IN saveGame(IF lastAction.type = "move"
                     THEN undoMove(popped, lastAction)
                     ELSE undoKeyPickup(popped, lastAction))

\* The part of the session a handler can change, kept as the state the last
\* click started from.
Snapshot(s) ==
    [physicsObjects |-> s.physicsObjects, gameOver |-> s.gameOver,
     keySpawned |-> s.keySpawned, currentScene |-> s.currentScene,
     moveCount |-> s.moveCount, actionHistory |-> s.actionHistory,
     inventory |-> s.inventory, storage |-> s.storage]

\* What an undo click does, for the record of the last operation.
UndoKind(s) ==
    IF Len(s.actionHistory) = 0 \/ s.gameOver THEN "undoIgnored"
    ELSE IF s.actionHistory[Len(s.actionHistory)].type = "move" THEN "undoMove"
    ELSE "undoKeyPickup"

\* The click handler with the counter decremented ahead of the empty-history
\* test (the mutation C2 is tested against).
undoClickCountsFirst(s) ==
    IF s.gameOver THEN s
    ELSE IF Len(s.actionHistory) = 0
    THEN [s EXCEPT !.moveCount = Max(0, s.moveCount - 1)]
    ELSE undoLastAction(s)

\* The click handler without the game-over test (the mutation C3 is tested
\* against).
undoClickWhileOver(s) == undoLastAction(s)

\* The undo button's click handler.
undoClick(s) ==
    IF Len(s.actionHistory) = 0 \/ s.gameOver THEN s ELSE undoLastAction(s)

\* ------------------------------------------------------------ predicates
\* isOffPlatform with the edge itself counted as off (the mutation C12 is
\* tested against).
isOffPlatformInclusive(body, platformHalfSize) ==
    \/ body.pos.x <= -platformHalfSize
    \/ body.pos.x >= platformHalfSize
    \/ body.pos.z <= -platformHalfSize
    \/ body.pos.z >= platformHalfSize

isOffPlatform(body, platformHalfSize) ==
    \/ body.pos.x < -platformHalfSize
    \/ body.pos.x > platformHalfSize
    \/ body.pos.z < -platformHalfSize
    \/ body.pos.z > platformHalfSize

\* dist < threshold, compared on the squares.
isAtGoal(block, goal, threshold) ==
    DistSq(block.pos, goal.pos) < Sq(threshold)

checkBlockGoal(o) ==
    IF IsSome(o.block) /\ IsSome(o.goal)
    THEN isAtGoal(Val(o.block), Val(o.goal), GoalThreshold)
    ELSE FALSE

\* checkGameConditions with the loss checks ahead of the win check (the
\* mutation C31 is tested against).
checkGameConditionsLossFirst(over, o) ==
    IF over THEN [returned |-> FALSE, message |-> None]
    ELSE IF /\ IsSome(o.platform)
            /\ \/ IsSome(o.block)
                   /\ isOffPlatform(Val(o.block), Val(o.platform).halfSize)
               \/ IsSome(o.player)
                   /\ isOffPlatform(Val(o.player), Val(o.platform).halfSize)
    THEN [returned |-> TRUE, message |-> Some("You Lose!")]
    ELSE IF IsSome(o.block) /\ IsSome(o.goal)
            /\ isAtGoal(Val(o.block), Val(o.goal), GoalThreshold)
    THEN [returned |-> TRUE, message |-> Some("You Win!")]
    ELSE [returned |-> FALSE, message |-> None]

\* checkGameConditions({ gameOver, physicsObjects, showMessage }): what it
\* returns and the message it shows, if any.
checkGameConditions(over, o) ==
    IF over THEN [returned |-> FALSE, message |-> None]
    ELSE IF IsSome(o.block) /\ IsSome(o.goal)
            /\ isAtGoal(Val(o.block), Val(o.goal), GoalThreshold)
    THEN [returned |-> TRUE, message |-> Some("You Win!")]
    ELSE IF IsNone(o.platform) THEN [returned |-> FALSE, message |-> None]
    ELSE IF IsSome(o.block)
            /\ isOffPlatform(Val(o.block), Val(o.platform).halfSize)
    THEN [returned |-> TRUE, message |-> Some("You Lose!")]
    ELSE IF IsSome(o.player)
            /\ isOffPlatform(Val(o.player), Val(o.platform).halfSize)
    THEN [returned |-> TRUE, message |-> Some("You Lose!")]
    ELSE [returned |-> FALSE, message |-> None]

isGameOver(o) ==
    IF IsNone(o.platform) THEN FALSE
    ELSE \/ IsSome(o.block) /\ isOffPlatform(Val(o.block), Val(o.platform).halfSize)
         \/ IsSome(o.player) /\ isOffPlatform(Val(o.player), Val(o.platform).halfSize)

\* world.intersectionPair(sensor, player collider): the player's cuboid
\* (half extent 0.3) overlaps a sensor of the given horizontal half extents.
Intersects(sensorPos, hx, hz, playerPos) ==
    /\ Abs(playerPos.x - sensorPos.x) <= hx + 30
    /\ Abs(playerPos.z - sensorPos.z) <= hz + 30

TeleporterIsPlayerTouching(o) ==
    /\ IsSome(o.teleporter)
    /\ IsSome(o.player)
    /\ Intersects(Val(o.teleporter).pos, 50, 50, Val(o.player).pos)

DoorIsPlayerTouching(door, o) ==
    /\ IsSome(o.player)
    /\ door.collider
    /\ Intersects(door.pos, 50, 10, Val(o.player).pos)

playerHasKey(items) == hasItem(items, "key")

\* The unlock step without the key test (the mutation C6 is tested against).
DoorUnlockWithoutKey(door, o, items) ==
    IF ~door.unlocked /\ DoorIsPlayerTouching(door, o)
    THEN [door EXCEPT !.unlocked = TRUE]
    ELSE door

\* ------------------------------------------------------------ locked door
\* The unlock step of a door whose lock follows the inventory (the mutation
\* C22 is tested against).
DoorUnlockFollowsKey(door, o, items) ==
    [door EXCEPT !.unlocked = DoorIsPlayerTouching(door, o) /\ playerHasKey(items)]

DoorUnlock(door, o, items) ==
    IF ~door.unlocked /\ DoorIsPlayerTouching(door, o) /\ playerHasKey(items)
    THEN [door EXCEPT !.unlocked = TRUE]
    ELSE door

DoorFade(door) ==
    IF door.unlocked /\ ~door.fadedOut
    THEN LET f == door.fadeAmount - FadeStep IN
         IF f <= 0
         THEN [door EXCEPT !.fadeAmount = f, !.fadedOut = TRUE, !.collider = FALSE]
         ELSE [door EXCEPT !.fadeAmount = f]
    ELSE door

\* The win step that leaves the callback in place (the mutation C21 is tested
\* against).
DoorWinKeepsCallback(door, o) == door

\* The win step that does not wait for the door to have faded out (the
\* mutation C38 is tested against).
DoorWinWithoutFade(door, o) ==
    LET touching ==
            IF door.collider /\ IsSome(o.player)
            THEN Intersects(door.pos, 50, 10, Val(o.player).pos)
            ELSE IF IsSome(o.player)
            THEN DistSq(Val(o.player).pos, door.pos) < Sq(WinDistance)
            ELSE FALSE
    IN IF touching /\ door.onWin
       THEN [door EXCEPT !.onWin = FALSE]
       ELSE door

DoorWin(door, o) ==
    LET touching ==
            IF door.collider /\ IsSome(o.player)
            THEN Intersects(door.pos, 50, 10, Val(o.player).pos)
            ELSE IF IsSome(o.player)
            THEN DistSq(Val(o.player).pos, door.pos) < Sq(WinDistance)
            ELSE FALSE
    IN IF door.fadedOut /\ touching /\ door.onWin
       THEN [door EXCEPT !.onWin = FALSE]
       ELSE door

DoorUpdate(door, o, items) == DoorWin(DoorFade(DoorUnlock(door, o, items)), o)

\* ------------------------------------------------------------ update loop
Moving(body) == body.linvel # 0 \/ body.angvel # 0

\* One world.step(). Bodies in motion either advance (the player to playerPos,
\* the block it may push to blockPos) or come to rest where they are.
worldStep(o, outcome) ==
    LET playerMoves == IsSome(o.player) /\ Moving(Val(o.player))
        blockMoves == IsSome(o.block) /\ (playerMoves \/ Moving(Val(o.block)))
    IN IF outcome.rest
       THEN [o EXCEPT
              !.player = IF playerMoves
                         THEN Some(Stopped(Val(o.player), Val(o.player).pos))
                         ELSE o.player,
              !.block = IF blockMoves
                        THEN Some(Stopped(Val(o.block), Val(o.block).pos))
                        ELSE o.block]
       ELSE [o EXCEPT
              !.player = IF playerMoves
                         THEN Some([pos |-> outcome.playerPos, linvel |-> 1, angvel |-> 1])
                         ELSE o.player,
              !.block = IF blockMoves
                        THEN Some([pos |-> outcome.blockPos, linvel |-> 1, angvel |-> 1])
                        ELSE o.block]

\* The outcomes of a step: a body at rest that nothing pushes stays where it is.
StepOutcomes(s) ==
    LET o == s.physicsObjects
        playerMoves == IsSome(o.player) /\ Moving(Val(o.player))
        blockMoves == IsSome(o.block) /\ (playerMoves \/ Moving(Val(o.block)))
    IN {[rest |-> TRUE, playerPos |-> Scene1PlayerStart, blockPos |-> BlockStart]}
       \cup IF playerMoves \/ blockMoves
             THEN [rest : {FALSE},
                   playerPos : IF playerMoves THEN PlayerPoints(s.currentScene)
                               ELSE {Scene1PlayerStart},
                   blockPos : IF blockMoves THEN BlockPoints ELSE {BlockStart}]
             ELSE {}

\* world.step() runs only in a frame that passes the early return; in any
\* other frame there is nothing for the physics to decide.
FrameOutcomes(s) ==
    IF ~s.world \/ s.gameOver
    THEN {[rest |-> TRUE, playerPos |-> Scene1PlayerStart, blockPos |-> BlockStart]}
    ELSE StepOutcomes(s)

\* The spawn step without the keySpawned test (the mutation C4 is tested
\* against).
spawnKeyUnguarded(s) ==
    IF checkBlockGoal(s.physicsObjects)
    THEN [s EXCEPT !.physicsObjects.key = Some(Key(KeySpawnPos, "spawn")),
                   !.worldBodies = Created(s.worldBodies, {"key"}),
                   !.keySpawned = TRUE]
    ELSE s

\* spawnKey that creates the key without raising the flag (the mutation C23
\* is tested against).
spawnKeyWithoutFlag(s) ==
    IF checkBlockGoal(s.physicsObjects) /\ ~s.keySpawned
    THEN [s EXCEPT !.physicsObjects.key = Some(Key(KeySpawnPos, "spawn")),
                   !.worldBodies = Created(s.worldBodies, {"key"})]
    ELSE s

spawnKey(s) ==
    IF checkBlockGoal(s.physicsObjects) /\ ~s.keySpawned
    THEN [s EXCEPT !.physicsObjects.key = Some(Key(KeySpawnPos, "spawn")),
                   !.worldBodies = Created(s.worldBodies, {"key"}),
                   !.keySpawned = TRUE]
    ELSE s

\* A handler that reloads the scene it fires in (the mutation C19 is tested
\* against).
onPlayerEnterSameScene(s) ==
    loadScene([s EXCEPT !.gameOver = TRUE], s.currentScene, None)

\* teleporter.trigger() with the onPlayerEnter handler wired by the scene.
onPlayerEnter(s) ==
    loadScene([s EXCEPT !.gameOver = TRUE],
              Val(s.physicsObjects.teleporter).onPlayerEnter, None)

teleport(s) ==
    IF ~s.gameOver /\ TeleporterIsPlayerTouching(s.physicsObjects)
    THEN onPlayerEnter(s)
    ELSE s

\* The loss evaluation that never puts up the lose screen (the mutation C16
\* is tested against).
evaluateLossWithoutScreen(s) ==
    [s EXCEPT !.gameOver = isGameOver(s.physicsObjects)]

\* loseScreen counts the showLoseScreen calls since the last retry.
evaluateLoss(s) ==
    LET over == isGameOver(s.physicsObjects) IN
    [s EXCEPT !.gameOver = over,
              !.loseScreen = IF over /\ ~s.gameOver THEN s.loseScreen + 1
                             ELSE s.loseScreen]

\* world.step() and lockedDoor.update().
stepWorld(s, outcome) ==
    LET stepped == worldStep(s.physicsObjects, outcome) IN
    [s EXCEPT !.physicsObjects =
        IF IsSome(stepped.lockedDoor)
        THEN [stepped EXCEPT !.lockedDoor =
                Some(DoorUpdate(Val(stepped.lockedDoor), stepped, s.inventory))]
        ELSE stepped]

\* update without the early return (the mutation C15 is tested against).
updateWithoutEarlyReturn(s, outcome) ==
    evaluateLoss(teleport(spawnKey(stepWorld(s, outcome))))

update(s, outcome) ==
    IF ~s.world \/ s.gameOver THEN s
    ELSE evaluateLoss(teleport(spawnKey(stepWorld(s, outcome))))

\* ------------------------------------------------------------ pointer input
\* Player.move: an impulse towards the click point when it is further than
\* 0.1 away horizontally; the move is recorded, counted and saved.
HorizontalDistSq(a, b) == Sq(a.x - b.x) + Sq(a.z - b.z)

\* The distance test with the threshold itself accepted (the mutation C35 is
\* tested against).
MoveAcceptedAtThreshold(player, clickPoint) ==
    HorizontalDistSq(clickPoint, player.pos) >= Sq(MinMoveDistance)

MoveAccepted(player, clickPoint) ==
    HorizontalDistSq(clickPoint, player.pos) > Sq(MinMoveDistance)

\* Player.move without the trailing save (the mutation C10 is tested against).
moveWithoutSave(s, clickPoint) ==
    LET player == Val(s.physicsObjects.player) IN
    IF MoveAccepted(player, clickPoint)
    THEN incrementMoveCount(trackMoveAction(
            [s EXCEPT !.physicsObjects.player = Some([player EXCEPT !.linvel = 1])],
            getSaveData(player)))
    ELSE s

move(s, clickPoint) ==
    LET player == Val(s.physicsObjects.player) IN
    IF MoveAccepted(player, clickPoint)
    THEN saveGame(incrementMoveCount(trackMoveAction(
            [s EXCEPT !.physicsObjects.player = Some([player EXCEPT !.linvel = 1])],
            getSaveData(player))))
    ELSE s

\* The click handler a key carries: the one wired at spawn records the pickup,
\* the one wired by undo does not.
keyOnClick(s, key) ==
    IF key.onClick = "spawn"
    THEN saveGame([s EXCEPT
            !.actionHistory = Append(s.actionHistory, KeyPickupRecord(key.pos)),
            !.inventory = addItem(s.inventory, "key")])
    ELSE IF key.onClick = "respawn"
    THEN saveGame([s EXCEPT !.inventory = addItem(s.inventory, "key")])
    ELSE s

\* Key.checkClick that marks nothing on the instance it hit (the mutation C37
\* is tested against).
checkClickLeavesKeyLive(s, hits) ==
    LET key == Val(s.physicsObjects.key) IN
    IF ~hits THEN s ELSE saveGame(keyOnClick(s, key))

\* Key.checkClick: hits tells whether the ray meets where the hitbox is.
checkClick(s, hits) ==
    LET key == Val(s.physicsObjects.key)
        picked == [key EXCEPT !.pickedUp = TRUE]
        handled == keyOnClick([s EXCEPT !.physicsObjects.key = Some(picked)], picked)
    IN IF key.pickedUp \/ ~key.hitbox \/ ~hits THEN s
       ELSE saveGame([handled EXCEPT !.physicsObjects.key =
                Some([picked EXCEPT !.onClick = "none", !.hitbox = FALSE])])

\* Key.checkClick on a hit, followed by the handler's destroy.
clickKey(s) ==
    LET saved == checkClick(s, TRUE)
    IN [saved EXCEPT !.physicsObjects.key = None,
                     !.worldBodies = Removed(saved.worldBodies, {"key"})]

KeyClickable(o) ==
    IsSome(o.key) /\ ~Val(o.key).pickedUp /\ Val(o.key).hitbox

\* pointerdown: hitsKey tells whether the ray meets the key's hitbox,
\* clickPoint is where it meets the platform (None if it misses).
pointerDown(s, hitsKey, clickPoint) ==
    LET o == s.physicsObjects IN
    IF s.gameOver \/ IsNone(o.player) \/ IsNone(o.platform) THEN s
    ELSE IF hitsKey /\ KeyClickable(o) THEN clickKey(s)
    ELSE IF IsSome(clickPoint) THEN move(s, Val(clickPoint))
    ELSE s

\* What a pointerdown does, for the record of the last operation.
PointerKind(s, hitsKey, clickPoint) ==
    LET o == s.physicsObjects IN
    IF s.gameOver \/ IsNone(o.player) \/ IsNone(o.platform) THEN "clickIgnored"
    ELSE IF hitsKey /\ KeyClickable(o) THEN "keyPickup"
    ELSE IF IsSome(clickPoint) /\ MoveAccepted(Val(o.player), Val(clickPoint))
    THEN "move"
    ELSE "clickIgnored"

ClickPoints(sceneNumber) ==
    {p \in PlayerPoints(sceneNumber) : ~isOffPlatform([pos |-> p], PlatformHalfSize)}

\* Clicks that land on the platform right at, and just beyond, the distance
\* below which Player.move does nothing.
NearClicks(o) ==
    IF IsNone(o.player) THEN {}
    ELSE {p \in {Vec(Val(o.player).pos.x + d, Val(o.player).pos.y, Val(o.player).pos.z) :
                    d \in {MinMoveDistance, MinMoveDistance + 1}} :
            ~isOffPlatform([pos |-> p], PlatformHalfSize)}

\* The points of the platform a pointerdown can land on.
PlatformClicks(s) == ClickPoints(s.currentScene) \cup NearClicks(s.physicsObjects)

\* The retry callback without the reset of the move counter (the mutation C39
\* is tested against).
retryKeepsMoveCount(s) ==
    loadScene([s EXCEPT !.loseScreen = 0,
                        !.gameOver = FALSE,
                        !.keySpawned = FALSE,
                        !.inventory = clearInventory(s.inventory)],
              1, None)

\* The retry button of the lose screen.
retry(s) ==
    loadScene([s EXCEPT !.loseScreen = 0,
                        !.gameOver = FALSE,
                        !.keySpawned = FALSE,
                        !.moveCount = 0,
                        !.inventory = clearInventory(s.inventory)],
              1, None)

\* ------------------------------------------- delayed teleport revision
\* The revision whose teleporters load the next scene from a one-second
\* timer. It has no undo history, move counter or lose screen.
saveGameDelayed(s) ==
    LET o == s.physicsObjects IN
    IF IsNone(o.player) THEN s
    ELSE [s EXCEPT !.storage = Some(Stringify(
            [scene |-> s.currentScene,
             player |-> getSaveData(Val(o.player)),
             block |-> IF IsSome(o.block) THEN Some(getSaveData(Val(o.block)))
                       ELSE None,
             key |-> IF IsSome(o.key) THEN KeyGetSaveData(Val(o.key))
                     ELSE [pickedUp |-> TRUE]]))]

clearSceneDelayed(s) ==
    [s EXCEPT !.worldBodies = IF s.world
                              THEN Removed(s.worldBodies, Referenced(s.physicsObjects))
                              ELSE s.worldBodies,
              !.physicsObjects = NoObjects,
              !.testApi = Detached(s.testApi),
              !.keySpawned = FALSE,
              !.gameOver = FALSE]

loadSceneDelayed(s, sceneNumber, data) ==
    LET c == clearSceneDelayed(s) IN
    [c EXCEPT !.currentScene = sceneNumber,
              !.pendingLoads = Append(c.pendingLoads,
                    [scene |-> sceneNumber, data |-> data, init |-> FALSE])]

loadGameDelayed(s) ==
    IF IsNone(s.storage) THEN s
    ELSE LET data == Parse(Val(s.storage)) IN
         loadSceneDelayed([s EXCEPT !.currentScene = data.scene],
                          data.scene, Some(data))

createAfterInitPhysicsDelayed(s) ==
    IF IsSome(s.storage) /\ ~CanParse(Val(s.storage)) THEN loadGameDelayed(s)
    ELSE [loadGameDelayed(s) EXCEPT !.testApi = "live"]

finishLoadDelayed(s) ==
    LET job == Head(s.pendingLoads)
        r == [s EXCEPT !.pendingLoads = Tail(s.pendingLoads)]
        built == IF job.scene = 1 THEN loadScene1(r)
                 ELSE IF job.scene = 2 THEN loadScene2(r)
                 ELSE r
    IN IF job.init THEN createAfterInitPhysicsDelayed(built)
       ELSE IF IsSome(job.data) THEN applySaved(built, Val(job.data))
       ELSE built

\* The teleporter handler: mark the session over and start the timer.
onPlayerEnterDelayed(s) ==
    IF ~s.gameOver
    THEN [s EXCEPT !.gameOver = TRUE,
                   !.timers = Append(s.timers,
                                     Val(s.physicsObjects.teleporter).onPlayerEnter)]
    ELSE s

teleportDelayed(s) ==
    IF TeleporterIsPlayerTouching(s.physicsObjects)
    THEN onPlayerEnterDelayed(s)
    ELSE s

spawnKeyDelayed(s) ==
    IF checkBlockGoal(s.physicsObjects) /\ ~s.keySpawned
    THEN [s EXCEPT !.physicsObjects.key = Some(Key(KeySpawnPos, "spawn")),
                   !.worldBodies = Created(s.worldBodies, {"key"}),
                   !.keySpawned = TRUE]
    ELSE s

updateDelayed(s, outcome) ==
    IF ~s.world \/ s.gameOver THEN s
    ELSE LET t == teleportDelayed(spawnKeyDelayed(stepWorld(s, outcome))) IN
         [t EXCEPT !.gameOver = isGameOver(t.physicsObjects)]

\* The timer's callback.
timerFires(s) ==
    loadSceneDelayed([s EXCEPT !.timers = Tail(s.timers)], Head(s.timers), None)

moveDelayed(s, clickPoint) ==
    LET player == Val(s.physicsObjects.player) IN
    IF MoveAccepted(player, clickPoint)
    THEN saveGameDelayed(
            [s EXCEPT !.physicsObjects.player = Some([player EXCEPT !.linvel = 1])])
    ELSE s

clickKeyDelayed(s) ==
    LET key == Val(s.physicsObjects.key)
        picked == [key EXCEPT !.pickedUp = TRUE]
        handled == saveGameDelayed(
                      [s EXCEPT !.physicsObjects.key = Some(picked),
                                !.inventory = addItem(s.inventory, "key")])
        saved == saveGameDelayed([handled EXCEPT !.physicsObjects.key =
                    Some([picked EXCEPT !.onClick = "none", !.hitbox = FALSE])])
    IN [saved EXCEPT !.physicsObjects.key = None,
                     !.worldBodies = Removed(saved.worldBodies, {"key"})]

pointerDownDelayed(s, hitsKey, clickPoint) ==
    LET o == s.physicsObjects IN
    IF s.gameOver \/ IsNone(o.player) \/ IsNone(o.platform) THEN s
    ELSE IF hitsKey /\ KeyClickable(o) THEN clickKeyDelayed(s)
    ELSE IF IsSome(clickPoint) THEN moveDelayed(s, Val(clickPoint))
    ELSE s

\* ------------------------------------------------------------ state machine
Boot == [world |-> FALSE, physicsObjects |-> NoObjects, gameOver |-> FALSE,
         keySpawned |-> FALSE, currentScene |-> 1, moveCount |-> 0,
         actionHistory |-> <<>>, inventory |-> <<>>, storage |-> None,
         pendingLoads |-> <<>>, pendingDoors |-> 0,
         doorModuleLoaded |-> FALSE, loseScreen |-> 0,
         timers |-> <<>>, configFile |-> None, cachedConfig |-> None,
         worldBodies |-> NoBodies, testApi |-> "unset"]

Init ==
    /\ world = Boot.world
    /\ physicsObjects = Boot.physicsObjects
    /\ gameOver = Boot.gameOver
    /\ keySpawned = Boot.keySpawned
    /\ currentScene = Boot.currentScene
    /\ moveCount = Boot.moveCount
    /\ actionHistory = Boot.actionHistory
    /\ inventory = Boot.inventory
    /\ storage = Boot.storage
    /\ pendingLoads = Boot.pendingLoads
    /\ pendingDoors = Boot.pendingDoors
    /\ doorModuleLoaded = Boot.doorModuleLoaded
    /\ loseScreen = Boot.loseScreen
    /\ timers = Boot.timers
    /\ configFile = Boot.configFile
    /\ cachedConfig = Boot.cachedConfig
    /\ worldBodies = Boot.worldBodies
    /\ testApi = Boot.testApi
    /\ lastOp = "none"
    /\ before = None

\* create(): the physics world is made and the first scene starts loading.
InitPhysics ==
    /\ ~world
    /\ Apply([State EXCEPT !.world = TRUE,
                !.pendingLoads = <<[scene |-> 1, data |-> None, init |-> TRUE]>>])
    /\ lastOp' = "none"
    /\ before' = None

\* loadGame finds no entry, or one that does not parse.
NothingToLoad(s) == IsNone(s.storage) \/ ~CanParse(Val(s.storage))

\* A scene finishes loading; "fresh" marks a start without a snapshot,
\* "loaded" marks the one loadGame was waiting for.
LoadComplete ==
    /\ pendingLoads # <<>>
    /\ finishLoad(State).pendingDoors <= MaxPendingDoors
    /\ Apply(finishLoad(State))
    /\ lastOp' = IF IsSome(Head(pendingLoads).data) THEN "loaded"
                 ELSE IF Head(pendingLoads).init /\ NothingToLoad(State)
                 THEN "fresh"
                 ELSE "none"
    /\ before' = None

DoorLoaded ==
    /\ pendingDoors > 0
    /\ Apply(doorModuleArrives(State))
    /\ lastOp' = "none"
    /\ before' = None

\* A frame; "idle" marks one that found no world or a session that is over,
\* and keeps the state it started from.
Tick ==
    \E outcome \in FrameOutcomes(State) :
        /\ Apply(update(State, outcome))
        /\ lastOp' = IF ~world \/ gameOver THEN "idle" ELSE "none"
        /\ before' = IF ~world \/ gameOver THEN Some(Snapshot(State)) ELSE None

PointerDown ==
    \E hitsKey \in {FALSE} \cup {KeyClickable(physicsObjects)} :
      \E clickPoint \in {None} \cup {Some(p) : p \in PlatformClicks(State)} :
        LET next == pointerDown(State, hitsKey, clickPoint) IN
        /\ Len(next.actionHistory) <= MaxHistory
        /\ next.moveCount <= MaxMoveCount
        /\ Apply(next)
        /\ lastOp' = IF PointerKind(State, hitsKey, clickPoint) = "clickIgnored"
                     THEN lastOp
                     ELSE PointerKind(State, hitsKey, clickPoint)
        /\ before' = IF PointerKind(State, hitsKey, clickPoint) = "clickIgnored"
                     THEN before
                     ELSE Some(Snapshot(State))

UndoClick ==
    /\ Apply(undoClick(State))
    /\ lastOp' = UndoKind(State)
    /\ before' = Some(Snapshot(State))

RetryClick ==
    /\ loseScreen > 0
    /\ Apply(retry(State))
    /\ lastOp' = "retry"
    /\ before' = None

\* The page is reloaded: everything but the stored snapshot starts over.
Reload ==
    /\ Apply([Boot EXCEPT !.storage = storage, !.configFile = configFile])
    /\ lastOp' = "none"
    /\ before' = None

\* The page is reloaded after the stored entry was removed or damaged.
ReloadWithoutSave ==
    /\ \E entry \in {None, Some(Garbage)} : Apply([Boot EXCEPT !.storage = entry, !.configFile = configFile])
    /\ lastOp' = "none"
    /\ before' = None

Next ==
    \/ InitPhysics
    \/ LoadComplete
    \/ DoorLoaded
    \/ Tick
    \/ PointerDown
    \/ UndoClick
    \/ RetryClick
    \/ Reload
    \/ ReloadWithoutSave

Spec == Init /\ [][Next]_vars

\* The session with its asynchronous continuations scheduled fairly: a
\* pending scene construction resumes once its awaits settle, and the pending
\* import of the door module resolves.
\* The page is not reloaded, and undo is clicked while a scene is loading.
UndoClickWhileLoading ==
    /\ pendingLoads # <<>>
    /\ UndoClick

NextLive ==
    \/ InitPhysics
    \/ LoadComplete
    \/ DoorLoaded
    \/ Tick
    \/ PointerDown
    \/ UndoClickWhileLoading
    \/ RetryClick

SpecLive ==
    /\ Init
    /\ [][NextLive]_vars
    /\ WF_vars(LoadComplete)
    /\ WF_vars(DoorLoaded)

\* Scene 1 with the player and the block at rest on, just inside or just
\* outside the platform's edge, for the loss evaluation of a frame.
EdgeCoords ==
    {-PlatformHalfSize - 1, -PlatformHalfSize, 0, PlatformHalfSize,
     PlatformHalfSize + 1}

EdgeScene(playerPos, blockPos) ==
    LET s == loadScene1([Boot EXCEPT !.world = TRUE, !.testApi = "live"]) IN
    [s EXCEPT !.physicsObjects.player = Some(Player(playerPos)),
              !.physicsObjects.block = Some([Block EXCEPT !.pos = blockPos])]

\* The session is s.
Starts(s) ==
    /\ world = s.world
    /\ physicsObjects = s.physicsObjects
    /\ gameOver = s.gameOver
    /\ keySpawned = s.keySpawned
    /\ currentScene = s.currentScene
    /\ moveCount = s.moveCount
    /\ actionHistory = s.actionHistory
    /\ inventory = s.inventory
    /\ storage = s.storage
    /\ pendingLoads = s.pendingLoads
    /\ pendingDoors = s.pendingDoors
    /\ doorModuleLoaded = s.doorModuleLoaded
    /\ loseScreen = s.loseScreen
    /\ timers = s.timers
    /\ configFile = s.configFile
    /\ cachedConfig = s.cachedConfig
    /\ worldBodies = s.worldBodies
    /\ testApi = s.testApi

InitEdge ==
    /\ \E px, pz, bx, bz \in EdgeCoords :
         Starts(EdgeScene(Vec(px, PlatformTop + 30, pz),
                          Vec(bx, PlatformTop + 50, bz)))
    /\ lastOp = "placed"
    /\ before = None

NextEdge == Tick

SpecEdge == InitEdge /\ [][NextEdge]_vars

\* Config files: every field of both sections is drawn from values on and
\* around the limits of its rule, and the file or a section may be missing.
FrictionValues == {Num(-1), Num(0), Num(100), Num(101), Str}
MinForceValues == {Num(0), Num(100), NotANumber}
MaxForceValues == {Num(0), Num(50), Num(100), Absent}
DampingValues == {Num(-1), Num(0)}
DensityValues == {Num(0), Num(50), Absent}

PlayerSections ==
    {None} \cup
    {Some([friction |-> f, minForce |-> lo, maxForce |-> hi,
           linearDamping |-> ld, angularDamping |-> ad]) :
        f \in FrictionValues, lo \in MinForceValues, hi \in MaxForceValues,
        ld \in DampingValues, ad \in DampingValues}

BlockSections ==
    {None} \cup
    {Some([linearDamping |-> ld, angularDamping |-> ad, friction |-> f,
           density |-> d]) :
        ld \in DampingValues, ad \in DampingValues, f \in FrictionValues,
        d \in DensityValues}

ConfigFiles ==
    {None} \cup
    {Some([player |-> p, block |-> b]) : p \in PlayerSections, b \in BlockSections}

\* The game boots with each candidate file in place of
\* /data/physics-config.json; the first scene load reads it.
InitConfig ==
    /\ \E file \in ConfigFiles : Starts([Boot EXCEPT !.configFile = file])
    /\ lastOp = "none"
    /\ before = None

NextConfig ==
    \/ InitPhysics
    \/ LoadComplete

SpecConfig == InitConfig /\ [][NextConfig]_vars

\* Startup over whatever the browser holds: the stored entry is absent, does
\* not parse, or parses to a snapshot whose scene id and player position may
\* be anything; the configuration file is absent, valid or out of range.
SceneIds == {0, 1, 2, 3}

StoredEntries ==
    {None, Some(Garbage)} \cup
    {Some(Stringify([scene |-> n, player |-> p, block |-> Some(BlockStart),
                     key |-> [pickedUp |-> TRUE], moveCount |-> 0,
                     actionHistory |-> <<>>])) :
        n \in SceneIds, p \in {InteriorPos, OffPlatformPos(PlatformTop + 30)}}

StartupConfigFiles ==
    {None, Some(DEFAULT_CONFIG),
     Some([player |-> Some([friction |-> Num(101), minForce |-> NotANumber,
                            maxForce |-> Absent, linearDamping |-> Num(-1),
                            angularDamping |-> Num(0)]),
           block |-> None])}

InitStartup ==
    /\ \E entry \in StoredEntries, file \in StartupConfigFiles :
         Starts([Boot EXCEPT !.storage = entry, !.configFile = file])
    /\ lastOp = "none"
    /\ before = None

NextStartup ==
    \/ InitPhysics
    \/ LoadComplete
    \/ DoorLoaded
    \/ Tick
    \/ PointerDown

SpecStartup ==
    /\ InitStartup
    /\ [][NextStartup]_vars
    /\ WF_vars(InitPhysics)
    /\ WF_vars(LoadComplete)
    /\ WF_vars(DoorLoaded)

\* create() whose initPhysics threw.  Either the RAPIER.World constructor
\* threw, and world was never assigned, or loadScene1 threw while constructing
\* its (built + 1)-th entity, after world had been assigned and the entities
\* before it had been created.  create's catch renders once and returns, so
\* loadGame is not called.
SceneOrder == <<"platform", "block", "goal", "teleporter", "player">>

WorldConstructionThrows(s) == s

FirstSceneThrows(s, built) ==
    LET whole == loadScene1([s EXCEPT !.world = TRUE])
        made == {SceneOrder[i] : i \in 1..built}
    IN [whole EXCEPT
          !.worldBodies = Created(s.worldBodies, made),
          !.physicsObjects =
              [kind \in DOMAIN NoObjects |->
                  IF kind \in made THEN whole.physicsObjects[kind] ELSE None]]

InitFailed ==
    /\ \E entry \in StoredEntries, file \in StartupConfigFiles :
         LET s == [Boot EXCEPT !.storage = entry, !.configFile = file] IN
         \/ Starts(WorldConstructionThrows(s))
         \/ \E built \in 0..(Len(SceneOrder) - 1) : Starts(FirstSceneThrows(s, built))
    /\ lastOp = "initFailed"
    /\ before = None

NextFailed ==
    \/ Tick
    \/ PointerDown
    \/ UndoClick

SpecFailed == InitFailed /\ [][NextFailed]_vars

\* checkGameConditions called, as the integration test calls it, on an entity
\* set whose block and player have been placed by hand, with either value of
\* gameOver; the call's result is kept in `before`.
GoalDistances == {0, GoalThreshold - 1, GoalThreshold, GoalThreshold + 1}

ConditionBlocks ==
    {None, Some([Block EXCEPT !.pos = OffPlatformPos(PlatformTop + 50)]),
     Some(Block)} \cup
    {Some([Block EXCEPT !.pos = Vec(GoalPos.x + d, GoalPos.y, GoalPos.z)]) :
        d \in GoalDistances}

ConditionPlayers ==
    {None, Some(Player(Scene1PlayerStart)),
     Some(Player(OffPlatformPos(PlatformTop + 30)))}

ConditionScene(block, player, goal, platform, over) ==
    LET s == loadScene1([Boot EXCEPT !.world = TRUE, !.testApi = "live"]) IN
    [s EXCEPT !.physicsObjects.block = block,
              !.physicsObjects.player = player,
              !.physicsObjects.goal = goal,
              !.physicsObjects.platform = platform,
              !.gameOver = over]

InitConditions ==
    /\ \E block \in ConditionBlocks, player \in ConditionPlayers,
          goal \in {None, Some(Goal)}, platform \in {None, Some(Platform)},
          over \in BOOLEAN :
         Starts(ConditionScene(block, player, goal, platform, over))
    /\ lastOp = "placed"
    /\ before = None

CheckGameConditions ==
    /\ lastOp = "placed"
    /\ lastOp' = "checked"
    /\ before' = Some(checkGameConditions(gameOver, physicsObjects))
    /\ Apply(State)

NextConditions == CheckGameConditions

SpecConditions == InitConditions /\ [][NextConditions]_vars

\* One Key instance, clicked any number of times while its holder keeps it.
\* The instance is one the update loop spawned, one an undo respawned, or one
\* constructed as already picked up with a handler wired to it afterwards; the
\* block is at the goal or, after an undo, back where it started.
KeyInstances ==
    {Key(KeySpawnPos, "spawn"), Key(KeySpawnPos, "respawn"),
     [Key(KeySpawnPos, "spawn") EXCEPT !.pickedUp = TRUE, !.hitbox = FALSE]}

KeyHistories ==
    {<<>>, <<MoveRecord(Scene1PlayerStart, Some(BlockStart), FALSE)>>}

KeyScene(key, items, history, playerPos, blockPos) ==
    LET loaded == loadScene1([Boot EXCEPT !.world = TRUE, !.testApi = "stale"])
    IN [loaded EXCEPT
          !.physicsObjects.player = Some(Player(playerPos)),
          !.physicsObjects.block = Some([Block EXCEPT !.pos = blockPos]),
          !.physicsObjects.key = Some(key),
          !.worldBodies = Created(loaded.worldBodies, {"key"}),
          !.keySpawned = TRUE,
          !.moveCount = Len(history),
          !.actionHistory = history,
          !.inventory = items]

InitKey ==
    \E key \in KeyInstances, items \in {<<>>, <<"key">>},
       history \in KeyHistories, playerPos \in ClickPoints(1),
       blockPos \in {BlockStart, AtGoalPos} :
        /\ Starts(KeyScene(key, items, history, playerPos, blockPos))
        /\ lastOp = "placed"
        /\ before = Some(Snapshot(KeyScene(key, items, history, playerPos, blockPos)))

KeyCheckClick ==
    \E hits \in BOOLEAN :
        LET next == checkClick(State, hits) IN
        /\ Len(next.actionHistory) <= MaxHistory
        /\ Apply(next)
        /\ lastOp' = IF ~hits THEN lastOp
                     ELSE IF KeyClickable(physicsObjects) THEN "keyPickup"
                     ELSE "clickRefused"
        /\ before' = before

NextKey == KeyCheckClick

SpecKey == InitKey /\ [][NextKey]_vars

\* The delayed teleport revision's state machine.
LoadCompleteDelayed ==
    /\ pendingLoads # <<>>
    /\ finishLoadDelayed(State).pendingDoors <= MaxPendingDoors
    /\ Apply(finishLoadDelayed(State))
    /\ lastOp' = "none"
    /\ before' = None

TickDelayed ==
    \E outcome \in StepOutcomes(State) :
        LET next == updateDelayed(State, outcome) IN
        /\ Len(next.timers) <= MaxTimers
        /\ Apply(next)
        /\ lastOp' = "none"
        /\ before' = None

\* A load started once the physics configuration is cached finishes in
\* microtasks, so no load is pending when a timer callback runs.
TimerFires ==
    /\ timers # <<>>
    /\ pendingLoads = <<>>
    /\ Apply(timerFires(State))
    /\ lastOp' = "none"
    /\ before' = None

PointerDownDelayed ==
    \E hitsKey \in {FALSE} \cup {KeyClickable(physicsObjects)} :
      \E clickPoint \in {None} \cup {Some(p) : p \in ClickPoints(currentScene)} :
        /\ Apply(pointerDownDelayed(State, hitsKey, clickPoint))
        /\ lastOp' = "none"
        /\ before' = None

NextDelayed ==
    \/ InitPhysics
    \/ LoadCompleteDelayed
    \/ DoorLoaded
    \/ TickDelayed
    \/ PointerDownDelayed
    \/ TimerFires
    \/ Reload

SpecDelayed == Init /\ [][NextDelayed]_vars

\* ================================================================ claims
LastRecord(history) == history[Len(history)]

\* C1: undoing a Move in a live session puts the player at the record's
\* pre-move position with zero linear and angular velocity and, when the
\* record holds a block position and a block exists, puts the block at that
\* position with zero linear and angular velocity.
C1_UndoMoveRestoresBodies ==
    lastOp = "undoMove" =>
        LET b == Val(before)
            d == LastRecord(b.actionHistory).data
            player == Val(physicsObjects.player)
        IN /\ ~b.gameOver
           /\ IsSome(physicsObjects.player)
           /\ player.pos = d.previousPosition
           /\ player.linvel = 0 /\ player.angvel = 0
           /\ (IsSome(d.previousBlockPosition) /\ IsSome(b.physicsObjects.block))
                => /\ IsSome(physicsObjects.block)
                   /\ Val(physicsObjects.block).pos = Val(d.previousBlockPosition)
                   /\ Val(physicsObjects.block).linvel = 0
                   /\ Val(physicsObjects.block).angvel = 0

\* C1 witness: a Move was undone while the player was moving away from the
\* recorded position and the block had been pushed off its recorded position.
C1_Witness ==
    /\ lastOp = "undoMove"
    /\ IsSome(Val(before).physicsObjects.block)
    /\ LET b == Val(before)
           d == LastRecord(b.actionHistory).data
       IN /\ Val(b.physicsObjects.player).pos # d.previousPosition
          /\ Val(b.physicsObjects.player).linvel # 0
          /\ IsSome(d.previousBlockPosition)
          /\ Val(b.physicsObjects.block).pos # Val(d.previousBlockPosition)
          /\ Val(b.physicsObjects.block).angvel # 0

\* C2: an undo click on an empty history changes nothing: moveCount,
\* gameOver, actionHistory, the entities, keySpawned and the inventory are as
\* they were.
C2_UndoOnEmptyHistoryIsNoOp ==
    (lastOp = "undoIgnored" /\ Len(Val(before).actionHistory) = 0) =>
        Snapshot(State) = Val(before)

\* C2 witness: undo was clicked in a live session with a built scene, an
\* empty history and a positive move counter.
C2_Witness ==
    /\ lastOp = "undoIgnored"
    /\ Len(Val(before).actionHistory) = 0
    /\ ~Val(before).gameOver
    /\ IsSome(Val(before).physicsObjects.player)
    /\ Val(before).moveCount > 0

\* C3: an undo click while the session is over changes nothing even when the
\* history holds records: no record is popped and moveCount, the entities,
\* keySpawned and the inventory are as they were.
C3_UndoWhileOverIsNoOp ==
    (lastOp = "undoIgnored" /\ Val(before).gameOver
        /\ Len(Val(before).actionHistory) > 0) =>
        Snapshot(State) = Val(before)

\* C3 witness: undo was clicked after the session ended with a Move on top of
\* the history.
C3_Witness ==
    /\ lastOp = "undoIgnored"
    /\ Val(before).gameOver
    /\ Len(Val(before).actionHistory) > 0
    /\ LastRecord(Val(before).actionHistory).type = "move"
    /\ Val(before).moveCount > 0

\* C4: within a scene instance the key is spawned once: a frame that starts
\* with keySpawned set never creates a key, whether the spawned key is still
\* in the scene or has been picked up and removed, and a frame that leaves
\* the block within the goal threshold with keySpawned unset creates the one
\* key and sets the flag. (Stated contrapositively: a step that does
\* otherwise is not a frame.)
C4_KeySpawnsOnce ==
    [][/\ (keySpawned /\ IsSome(physicsObjects'.key)
             /\ physicsObjects'.key # physicsObjects.key)
          => ~Tick
       /\ (world /\ ~gameOver /\ ~keySpawned /\ checkBlockGoal(physicsObjects')
             /\ ~(keySpawned'
                   /\ physicsObjects'.key = Some(Key(KeySpawnPos, "spawn"))))
          => ~Tick
      ]_vars

\* C4 witness: frames run with the block at the goal after the spawned key
\* was picked up and removed, the flag still set.
C4_Witness ==
    /\ lastOp = "none"
    /\ world /\ ~gameOver
    /\ keySpawned
    /\ checkBlockGoal(physicsObjects)
    /\ IsNone(physicsObjects.key)
    /\ hasItem(inventory, "key")
    /\ Len(actionHistory) > 0
    /\ LastRecord(actionHistory).type = "keyPickup"

\* C6: a frame leaves a locked door locked (fade scalar 1, collider in place)
\* when the inventory holds no key; a frame in which the player touches the
\* locked door while the inventory holds a key unlocks it; every frame of an
\* unlocked door lowers the fade scalar by 0.02, and the door is open, with
\* its collider removed, exactly when the scalar has reached zero, 50
\* decrements after 1.
C6_DoorLifecycle ==
    [][(IsSome(physicsObjects.lockedDoor) /\ IsSome(physicsObjects'.lockedDoor)
          /\ world /\ ~gameOver /\ Tick)
       => LET d == Val(physicsObjects.lockedDoor)
              e == Val(physicsObjects'.lockedDoor)
          IN /\ (~d.unlocked /\ ~hasItem(inventory, "key"))
                  => (~e.unlocked /\ e.fadeAmount = FadeStart /\ e.collider)
             /\ (~d.unlocked /\ hasItem(inventory, "key")
                    /\ DoorIsPlayerTouching(d, physicsObjects'))
                  => e.unlocked
             /\ (d.unlocked /\ ~d.fadedOut)
                  => e.fadeAmount = d.fadeAmount - FadeStep
             /\ e.fadedOut <=> (e.unlocked /\ e.fadeAmount = FadeStart - 50 * FadeStep)
             /\ e.fadedOut <=> (e.fadeAmount <= 0)
             /\ e.collider <=> ~e.fadedOut
      ]_vars

\* C6 witness: the door has been unlocked with a key and has faded to open,
\* its collider gone.
C6_Witness ==
    /\ IsSome(physicsObjects.lockedDoor)
    /\ hasItem(inventory, "key")
    /\ Val(physicsObjects.lockedDoor).unlocked
    /\ Val(physicsObjects.lockedDoor).fadedOut
    /\ Val(physicsObjects.lockedDoor).fadeAmount = 0
    /\ ~Val(physicsObjects.lockedDoor).collider

\* C7: undoing a Move that was recorded with no key spawned, from a state
\* where keySpawned is set, leaves no key entity and keySpawned unset, whether
\* the key was still in the scene or had been picked up.
C7_UndoMoveDespawnsKey ==
    (lastOp = "undoMove" /\ Val(before).keySpawned
        /\ ~LastRecord(Val(before).actionHistory).data.keyWasSpawned)
    => (IsNone(physicsObjects.key) /\ ~keySpawned)

\* C7 witness: such a Move was undone after the key had been picked up: no
\* key entity was left in the scene and the inventory held the key.
C7_Witness ==
    /\ lastOp = "undoMove"
    /\ Val(before).keySpawned
    /\ ~LastRecord(Val(before).actionHistory).data.keyWasSpawned
    /\ IsNone(Val(before).physicsObjects.key)
    /\ hasItem(Val(before).inventory, "key")

CurrentSaveData ==
    [scene |-> currentScene,
     player |-> getSaveData(Val(physicsObjects.player)),
     block |-> IF IsSome(physicsObjects.block)
               THEN Some(getSaveData(Val(physicsObjects.block)))
               ELSE None,
     key |-> IF IsSome(physicsObjects.key)
             THEN KeyGetSaveData(Val(physicsObjects.key))
             ELSE [pickedUp |-> TRUE],
     moveCount |-> moveCount,
     actionHistory |-> actionHistory]

\* C9 (as stated): once the session saved in the store has been loaded at
\* startup, moveCount, actionHistory, the scene, the entities' positions and
\* the key's pickup flag are those of the stored snapshot.
C9_SaveLoadRoundTrip ==
    lastOp = "loaded" =>
        /\ IsSome(physicsObjects.player)
        /\ Parse(Val(storage)) = CurrentSaveData

\* C9 (the part that holds): the scene, moveCount, the player's position and
\* a saved block's position are restored.
C9_RestoredPart ==
    lastOp = "loaded" =>
        LET data == Parse(Val(storage)) IN
        /\ currentScene = data.scene
        /\ moveCount = data.moveCount
        /\ IsSome(physicsObjects.player)
        /\ getSaveData(Val(physicsObjects.player)) = data.player
        /\ (IsSome(physicsObjects.block) /\ IsSome(data.block))
             => getSaveData(Val(physicsObjects.block)) = Val(data.block)

\* C9 witness: a snapshot holding two records and a positive moveCount has
\* been loaded.
C9_Witness ==
    /\ lastOp = "loaded"
    /\ Len(Parse(Val(storage)).actionHistory) = 2
    /\ Parse(Val(storage)).moveCount > 0

\* C10: when an accepted move, a key pickup or an undo has been handled, the
\* stored snapshot holds the resulting session: scene id, player and block
\* positions, key state, moveCount and actionHistory.
C10_SavedAfterEveryAction ==
    lastOp \in {"move", "keyPickup", "undoMove", "undoKeyPickup"} =>
        /\ IsSome(physicsObjects.player)
        /\ IsSome(storage)
        /\ Parse(Val(storage)) = CurrentSaveData

\* C10 witness: a move was accepted when the store already held an older
\* snapshot of a different session state.
C10_Witness ==
    /\ lastOp = "move"
    /\ IsSome(Val(before).storage)
    /\ IsSome(storage)
    /\ Val(before).storage # storage
    /\ Len(actionHistory) = 2

\* C5 (as stated): however many frames the player overlaps the teleporter
\* before the delayed load runs, a single scene load is scheduled.
C5_OneLoadScheduled == Len(timers) <= 1

\* C5 (as stated, first half): while a scheduled load is waiting, the session
\* is marked over.
C5_OverWhileLoadWaits == timers # <<>> => gameOver

\* C11: when the stored entry is absent or does not parse, startup restores
\* nothing and the game starts fresh: scene 1 as built, moveCount 0, an empty
\* actionHistory, no further load started, and the session runs on (it is not
\* over and the stored entry is left as it was found).
C11_StartsFreshWithoutSnapshot ==
    lastOp = "fresh" =>
        /\ NothingToLoad(State)
        /\ world /\ ~gameOver
        /\ currentScene = 1
        /\ moveCount = 0
        /\ actionHistory = <<>>
        /\ pendingLoads = <<>>
        /\ physicsObjects = loadScene1(Boot).physicsObjects

\* C11 witness: startup found an entry that does not parse and scene 1 is
\* ready.
C11_Witness ==
    /\ lastOp = "fresh"
    /\ IsSome(storage)
    /\ ~CanParse(Val(storage))
    /\ IsSome(physicsObjects.player)

\* Strictly outside the platform's square [-halfSize, halfSize] in x or z.
StrictlyOutside(pos) ==
    Abs(pos.x) > PlatformHalfSize \/ Abs(pos.z) > PlatformHalfSize

\* C12: a frame's loss evaluation reports a loss exactly when the player or
\* the block lies strictly outside [-halfSize, halfSize] in x or z; a body
\* exactly on +halfSize or -halfSize counts as on the platform.
C12_EdgeIsOnPlatform ==
    (lastOp = "none" /\ IsSome(physicsObjects.player)
        /\ IsSome(physicsObjects.block)) =>
        /\ isOffPlatform(Val(physicsObjects.player), PlatformHalfSize)
             <=> StrictlyOutside(Val(physicsObjects.player).pos)
        /\ isOffPlatform(Val(physicsObjects.block), PlatformHalfSize)
             <=> StrictlyOutside(Val(physicsObjects.block).pos)
        /\ gameOver <=> \/ StrictlyOutside(Val(physicsObjects.player).pos)
                        \/ StrictlyOutside(Val(physicsObjects.block).pos)

\* C12 witness: a frame has evaluated a player exactly on +halfSize in x and
\* a block exactly on -halfSize in z, and the session is not over.
C12_Witness ==
    /\ lastOp = "none"
    /\ IsSome(physicsObjects.player) /\ IsSome(physicsObjects.block)
    /\ Val(physicsObjects.player).pos.x = PlatformHalfSize
    /\ Val(physicsObjects.block).pos.z = -PlatformHalfSize
    /\ ~gameOver


\* The documented validation rules, field by field.
NumericIn(section, prop) == section[prop].kind = "num"
PlayerFieldOk(c, prop) ==
    /\ NumericIn(c, prop)
    /\ CASE prop = "friction" -> c.friction.v >= 0 /\ c.friction.v <= 100
         [] prop = "minForce" -> c.minForce.v > 0
         [] prop = "maxForce" ->
                c.maxForce.v > 0 /\ (NumericIn(c, "minForce") => c.maxForce.v >= c.minForce.v)
         [] OTHER -> c[prop].v >= 0
BlockFieldOk(c, prop) ==
    /\ NumericIn(c, prop)
    /\ CASE prop = "friction" -> c.friction.v >= 0 /\ c.friction.v <= 100
         [] prop = "density" -> c.density.v > 0
         [] OTHER -> c[prop].v >= 0
PlayerFields == {"friction", "minForce", "maxForce", "linearDamping", "angularDamping"}
BlockFields == {"linearDamping", "angularDamping", "friction", "density"}
SatisfiesAllRules(file) ==
    /\ IsSome(file)
    /\ IsSome(Val(file).player)
    /\ IsSome(Val(file).block)
    /\ \A prop \in PlayerFields : PlayerFieldOk(Val(Val(file).player), prop)
    /\ \A prop \in BlockFields : BlockFieldOk(Val(Val(file).block), prop)
ConfigRead == lastOp = "fresh" /\ IsSome(cachedConfig)

C15_IdleTickOnlyRenders ==
    lastOp = "idle" =>
        /\ ~world \/ gameOver
        /\ IsSome(before)
        /\ Snapshot(State) = Val(before)
        /\ gameOver = Val(before).gameOver
        /\ keySpawned = Val(before).keySpawned
        /\ moveCount = Val(before).moveCount
        /\ actionHistory = Val(before).actionHistory
        /\ physicsObjects = Val(before).physicsObjects

\* C15 witness: a frame ran while the session was over and the player's body
\* was still in motion.
C15_Witness ==
    /\ lastOp = "idle"
    /\ gameOver
    /\ IsSome(physicsObjects.player)
    /\ Moving(Val(physicsObjects.player))

\* The player or the block is outside the platform.
Lost ==
    /\ IsSome(physicsObjects.platform)
    /\ \/ /\ IsSome(physicsObjects.player)
          /\ StrictlyOutside(Val(physicsObjects.player).pos)
       \/ /\ IsSome(physicsObjects.block)
          /\ StrictlyOutside(Val(physicsObjects.block).pos)

\* C16: showLoseScreen is invoked exactly once per loss.  With loseScreen
\* counting the invocations since the last retry: from the frame that finds
\* the player or the block outside the platform on, the session is over and
\* the count is one, however many frames follow; and while nothing is
\* outside the count is zero.
C16_LoseScreenOncePerLoss ==
    /\ Lost <=> gameOver
    /\ loseScreen = IF Lost THEN 1 ELSE 0

\* C16 witness: a later frame has run while the loss persists, and the lose
\* screen has still been shown once.
C16_Witness ==
    /\ lastOp = "idle"
    /\ Lost
    /\ gameOver
    /\ loseScreen = 1

\* A loadScene call has torn the old scene down and the new one is not built.
SceneLoadPending == pendingLoads # <<>> /\ ~Head(pendingLoads).init

\* C17: whatever the state it is called in (teleporter, retry, loadGame),
\* loadScene leaves keySpawned false, gameOver false and actionHistory empty
\* once the old scene is torn down, and they are still so when the new scene
\* has been built from a snapshot that carried a history: nothing recorded
\* before the scene change is left to undo.
C17_LoadSceneResetsFlagsAndHistory ==
    /\ SceneLoadPending =>
           /\ ~keySpawned
           /\ ~gameOver
           /\ actionHistory = <<>>
           /\ physicsObjects = NoObjects
    /\ lastOp = "loaded" => actionHistory = <<>> /\ ~gameOver

\* C17 witness: the teleporter of scene 1 fired after two actions had been
\* recorded in it (the last save still shows them) and scene 2 is not built
\* yet.
C17_Witness ==
    /\ SceneLoadPending
    /\ currentScene = 2
    /\ IsSome(storage)
    /\ CanParse(Val(storage))
    /\ Parse(Val(storage)).scene = 1
    /\ Len(Parse(Val(storage)).actionHistory) = 2

OtherScene(sceneNumber) == IF sceneNumber = 1 THEN 2 ELSE 1

\* C19: each scene's teleporter is wired to the other scene.  A teleporter
\* that exists targets the scene that is not the current one, and the frame
\* in which it fires starts the load of that other scene: from 1 to 2, from
\* 2 to 1, never the scene it fired in.
C19_TeleporterLoadsOtherScene ==
    /\ [](IsSome(physicsObjects.teleporter) =>
            Val(physicsObjects.teleporter).onPlayerEnter = OtherScene(currentScene))
    /\ [][(world /\ lastOp' = "none" /\ Len(pendingLoads') > Len(pendingLoads)) =>
            /\ IsSome(physicsObjects.teleporter)
            /\ currentScene' = OtherScene(currentScene)
            /\ pendingLoads'[Len(pendingLoads')].scene = OtherScene(currentScene)]_vars

\* C19 witness: the teleporter of scene 2 has fired in a session with a move
\* on its counter (a retry would have reset it), and scene 1 is being loaded.
C19_Witness ==
    /\ SceneLoadPending
    /\ IsNone(Head(pendingLoads).data)
    /\ lastOp = "none"
    /\ currentScene = 1
    /\ moveCount > 0
    /\ doorModuleLoaded \/ pendingDoors > 0

\* C20 (as stated): a locked door exists only while scene 2 is the active
\* scene, whenever the door module arrives.
C20_DoorOnlyInScene2 == IsSome(physicsObjects.lockedDoor) => currentScene = 2

\* C20: what does hold is that scene 1 has no door as long as the door module
\* arrived before the scene was built.
C20_NoDoorPending == (IsSome(physicsObjects.lockedDoor) /\ currentScene = 1) => doorModuleLoaded

\* The bodies the entities in physicsObjects own: one each.
OwnedBodies == [k \in DOMAIN NoBodies |-> IF IsSome(physicsObjects[k]) THEN 1 ELSE 0]

\* C18 (as stated): once loadScene has torn the old scene down the world is
\* empty, and in every reachable state every body and collider in the world
\* is owned by an entity of the current scene.
C18_NoLeakedBodies ==
    /\ SceneLoadPending => worldBodies = NoBodies
    /\ worldBodies = OwnedBodies

\* C18: a world in which a locked door's body is owned by no entity.
C18_Witness ==
    /\ worldBodies.lockedDoor = 2
    /\ IsSome(physicsObjects.lockedDoor)
    /\ currentScene = 2

\* The player is less than 1.2 away from the door's position.
WithinWinDistance ==
    /\ IsSome(physicsObjects.lockedDoor)
    /\ IsSome(physicsObjects.player)
    /\ DistSq(Val(physicsObjects.player).pos, Val(physicsObjects.lockedDoor).pos)
           < Sq(WinDistance)

\* C21: for an open door (faded out, collider removed) the win callback is
\* invoked in the first frame that finds the player less than 1.2 from the
\* door, so after a frame no open door in range still holds its callback; and
\* a door whose callback has fired never gets it back, however many frames
\* the player stays in range.
C21_WinFiresOncePerDoor ==
    /\ []((lastOp = "none" /\ WithinWinDistance
             /\ Val(physicsObjects.lockedDoor).fadedOut)
          => ~Val(physicsObjects.lockedDoor).onWin)
    /\ [][(IsSome(physicsObjects.lockedDoor) /\ IsSome(physicsObjects.lockedDoor')
             /\ ~Val(physicsObjects.lockedDoor).onWin)
          => ~Val(physicsObjects.lockedDoor').onWin]_vars

\* C21 witness: the callback has fired, the door is open and the player is
\* still in range after a further frame.
C21_Witness ==
    /\ lastOp = "none"
    /\ WithinWinDistance
    /\ Val(physicsObjects.lockedDoor).fadedOut
    /\ ~Val(physicsObjects.lockedDoor).collider
    /\ ~Val(physicsObjects.lockedDoor).onWin
    /\ ~Moving(Val(physicsObjects.player))

\* ------------------------------------------- a late door on scene 1
\* Scene 1 after a visit to scene 2 whose door import resolved late: the door
\* stands on scene 1's platform.  Two moves have since pushed the block onto
\* the goal and brought the player to the door, and the spawned key has been
\* clicked.
LateDoorMoveCount == 2

LateDoorScene ==
    LET arrived == createDoor(loadScene1([Boot EXCEPT
                       !.world = TRUE, !.doorModuleLoaded = TRUE,
                       !.testApi = "stale",
                       !.moveCount = LateDoorMoveCount]))
        first == incrementMoveCount(
                     trackMoveAction(arrived, Val(arrived.physicsObjects.player).pos))
        pushed == spawnKey([first EXCEPT
                     !.physicsObjects.player = Some(Player(InteriorPos)),
                     !.physicsObjects.block = Some([Block EXCEPT !.pos = AtGoalPos])])
        second == incrementMoveCount(trackMoveAction(pushed, InteriorPos))
        atDoor == [second EXCEPT !.physicsObjects.player = Some(Player(AtDoorPos))]
    IN clickKey(atDoor)

InitLateDoor ==
    /\ Starts(LateDoorScene)
    /\ lastOp = "keyPickup"
    /\ before = None

NextLateDoor ==
    \/ Tick
    \/ UndoClick

SpecLateDoor == InitLateDoor /\ [][NextLateDoor]_vars

\* How far a door has come: 0 locked, 1 unlocking (fading), 2 open, 3 won.
DoorStage(d) ==
    IF ~d.unlocked THEN 0
    ELSE IF ~d.fadedOut THEN 1
    ELSE IF d.onWin THEN 2
    ELSE 3

\* C22: a door that persists over a step never moves back: its stage does not
\* decrease, an unlocked door stays unlocked whatever the inventory holds, the
\* fade scalar does not rise and a removed collider is not recreated; the
\* collider is gone exactly when the door has faded out.
C22_DoorOnlyMovesForward ==
    /\ [](IsSome(physicsObjects.lockedDoor) =>
            LET d == Val(physicsObjects.lockedDoor)
            IN  /\ d.fadedOut => d.unlocked
                /\ d.collider <=> ~d.fadedOut
                /\ ~d.onWin => d.fadedOut)
    /\ [][(IsSome(physicsObjects.lockedDoor) /\ IsSome(physicsObjects.lockedDoor'))
          => LET d == Val(physicsObjects.lockedDoor)
                 e == Val(physicsObjects.lockedDoor')
             IN  /\ DoorStage(e) >= DoorStage(d)
                 /\ d.unlocked => e.unlocked
                 /\ e.fadeAmount <= d.fadeAmount
                 /\ ~d.collider => ~e.collider]_vars

\* C22 witness: the door is unlocked and the inventory holds no key any more.
C22_Witness ==
    /\ IsSome(physicsObjects.lockedDoor)
    /\ Val(physicsObjects.lockedDoor).unlocked
    /\ ~hasItem(inventory, "key")
    /\ lastOp = "none"

\* C22 second witness: an open door whose collider is gone has seen a further
\* frame with the player away from it.
C22_WitnessOpen ==
    /\ IsSome(physicsObjects.lockedDoor)
    /\ ~Val(physicsObjects.lockedDoor).collider
    /\ lastOp = "none"
    /\ ~WithinWinDistance

\* C23 as stated: keySpawned is true exactly when a Key entity exists.
C23_SpawnedIffKeyExists ==
    keySpawned <=> IsSome(physicsObjects.key)

\* C23 amended: a Key entity exists only while keySpawned is true, and
\* keySpawned stays true after the key has been picked up: when it is true
\* and no Key entity exists, the key item is in the inventory.
C23_KeyExistsOnlyIfSpawned ==
    /\ IsSome(physicsObjects.key) => keySpawned
    /\ (keySpawned /\ IsNone(physicsObjects.key)) => hasItem(inventory, "key")

\* C23 witness: the key has been picked up, so keySpawned is still true and
\* no Key entity exists.
C23_Witness ==
    /\ keySpawned
    /\ IsNone(physicsObjects.key)
    /\ hasItem(inventory, "key")
    /\ lastOp = "keyPickup"

\* The win callback of the door of session snapshot b has fired.
WinFired(b) ==
    /\ IsSome(b.physicsObjects.lockedDoor)
    /\ ~Val(b.physicsObjects.lockedDoor).onWin

\* C24: an undo click made after the win callback has fired or after a loss
\* has been detected changes nothing: history, entities, moveCount, inventory
\* and key are as they were before the click.
C24_UndoIgnoredAfterWinOrLoss ==
    (lastOp \in {"undoMove", "undoKeyPickup", "undoIgnored"}
        /\ (Val(before).gameOver \/ WinFired(Val(before)))) =>
        Snapshot(State) = Val(before)

\* C24, the part about a loss: an undo click after a loss has been detected
\* changes nothing.
C24_UndoIgnoredAfterLoss ==
    (lastOp \in {"undoMove", "undoKeyPickup", "undoIgnored"}
        /\ Val(before).gameOver) =>
        Snapshot(State) = Val(before)

\* A scene change to sceneNumber is pending: loadScene has run clearScene and
\* set currentScene, and the scene's construction has not resumed yet.
TransitionPending(sceneNumber) ==
    /\ SceneLoadPending
    /\ IsNone(Head(pendingLoads).data)
    /\ Head(pendingLoads).scene = sceneNumber

\* Scene sceneNumber is built and playable.
SceneReady(sceneNumber) ==
    /\ currentScene = sceneNumber
    /\ pendingLoads = <<>>
    /\ IsSome(physicsObjects.platform)
    /\ IsSome(physicsObjects.teleporter)
    /\ Val(physicsObjects.teleporter).onPlayerEnter = OtherScene(sceneNumber)
    /\ IsSome(physicsObjects.player)
    /\ ~gameOver

\* C25: once a teleporter has triggered, the scene change is not cancelled
\* and completes: in a session that is not reloaded the pending load stays
\* until the step that builds the target scene, and eventually currentScene
\* is the target scene with its platform, teleporter and player present and
\* gameOver false.
C25_TransitionCompletes ==
    /\ \A sceneNumber \in {1, 2} :
          TransitionPending(sceneNumber) ~> SceneReady(sceneNumber)
    /\ [][\A sceneNumber \in {1, 2} :
            TransitionPending(sceneNumber)
            => (TransitionPending(sceneNumber)' \/ SceneReady(sceneNumber)')]_vars

\* C25 witness: scene 2 stands complete after the teleporter of scene 1
\* triggered.
C25_Witness ==
    /\ SceneReady(2)
    /\ lastOp = "none"
    /\ moveCount > 0
    /\ actionHistory = <<>>

\* C26: from the frame in which the teleporter triggers until the delayed
\* scene load begins, the session is marked over, so that no further trigger
\* schedules a second load in the meantime.
C26_OverUntilLoadBegins ==
    timers # <<>> => (gameOver /\ Len(timers) = 1)

\* The session is playable: the loads of startup are done, a platform and a
\* player exist and the session is not over, so that a pointer move is
\* accepted.
Playable ==
    /\ world
    /\ pendingLoads = <<>>
    /\ IsSome(physicsObjects.platform)
    /\ IsSome(physicsObjects.player)
    /\ ~gameOver
    /\ \E clickPoint \in ClickPoints(currentScene) :
          PointerKind(State, FALSE, Some(clickPoint)) = "move"

\* C27: whatever the stored entry and the configuration file hold, startup
\* reaches a playable state: when the last load of startup has completed
\* (the first scene with nothing to restore, or the scene of the stored
\* snapshot), a platform and a player exist, the session is not over and
\* pointer moves are accepted.
C27_StartupEndsPlayable ==
    lastOp \in {"fresh", "loaded"} => Playable

\* C27 as a liveness property: startup eventually reaches a playable state.
C27_StartupReachesPlayable == <>Playable

\* C27, restricted: startup reaches a playable state unless the stored entry
\* names a scene that does not exist.
C27_KnownSceneReachesPlayable ==
    /\ <>(Playable \/ currentScene \notin {1, 2})
    /\ []((lastOp \in {"fresh", "loaded"} /\ currentScene \in {1, 2}) => Playable)

\* C28: after a physics initialisation that failed during create the session
\* is not ready, and every frame only renders: it takes the early return of
\* update, steps nothing and leaves the session as it found it.
C28_FailedInitOnlyRenders ==
    lastOp \in {"idle", "none"} =>
        /\ lastOp = "idle"
        /\ ~world
        /\ Snapshot(State) = Val(before)

\* C28, the part about the world: when the world could not be constructed
\* every frame takes the early return and changes nothing.
C28_NoWorldOnlyRenders ==
    (~world /\ lastOp \in {"idle", "none"}) =>
        /\ lastOp = "idle"
        /\ Snapshot(State) = Val(before)

\* C29: once startup has assigned the test API, the physicsObjects it exposes
\* is the live entity set of the active scene, after scene changes and
\* retries too.
C29_TestApiExposesLiveObjects ==
    testApi # "unset" => testApi = "live"

\* C29, the part that holds: when the test API is assigned, and until the
\* scene is changed for the first time after that, it exposes the live entity
\* set.
C29_LiveUntilSceneChange ==
    [][(testApi = "live" /\ testApi' = "stale")
         => (physicsObjects' = NoObjects /\ pendingLoads' # <<>>)]_vars

\* C30: a teleporter scene change leaves the inventory as it is, both in the
\* frame that tears the old scene down and starts the load and in the step
\* that builds the new scene (a retry, which empties the inventory on
\* purpose, and a page reload are no teleporter scene changes); so the door
\* of scene 2 is only ever unlocked with a key item in the inventory.
C30_InventorySurvivesTeleport ==
    /\ [][(world /\ world' /\ pendingLoads' # pendingLoads /\ lastOp' # "retry")
          => inventory' = inventory]_vars
    /\ []((currentScene = 2 /\ IsSome(physicsObjects.lockedDoor)
             /\ Val(physicsObjects.lockedDoor).unlocked)
          => hasItem(inventory, "key"))

\* C30 witness: the key picked up in scene 1 is in the inventory in scene 2
\* and the door there has been unlocked with it.
C30_Witness ==
    /\ currentScene = 2
    /\ hasItem(inventory, "key")
    /\ IsSome(physicsObjects.lockedDoor)
    /\ Val(physicsObjects.lockedDoor).unlocked
    /\ IsNone(physicsObjects.block)

\* C31: checkGameConditions called with gameOver false on a state whose block
\* is less than 0.8 from the goal shows 'You Win!' and returns true, also when
\* the block or the player is off the platform; called with gameOver true it
\* returns false and shows nothing.
C31_WinCheckedFirst ==
    lastOp = "checked" =>
        LET r == Val(before)
            o == physicsObjects
        IN  /\ gameOver => r = [returned |-> FALSE, message |-> None]
            /\ (~gameOver /\ IsSome(o.block) /\ IsSome(o.goal)
                  /\ DistSq(Val(o.block).pos, Val(o.goal).pos) < Sq(GoalThreshold))
               => r = [returned |-> TRUE, message |-> Some("You Win!")]

\* C31 witness: the block is at the goal while the player is off the
\* platform, and the call reported the win.
C31_Witness ==
    /\ lastOp = "checked"
    /\ ~gameOver
    /\ checkBlockGoal(physicsObjects)
    /\ IsSome(physicsObjects.platform)
    /\ IsSome(physicsObjects.player)
    /\ isOffPlatform(Val(physicsObjects.player), Val(physicsObjects.platform).halfSize)
    /\ Val(before).message = Some("You Win!")

\* The number of Move records in a history.
RECURSIVE MoveRecords(_)
MoveRecords(h) ==
    IF h = <<>> THEN 0
    ELSE (IF Head(h).type = "move" THEN 1 ELSE 0) + MoveRecords(Tail(h))

\* The session after as many undos as the history has records.
RECURSIVE UndoAll(_)
UndoAll(s) ==
    IF Len(s.actionHistory) = 0 THEN s ELSE UndoAll(undoLastAction(s))

\* Each of those undos removes the record that was recorded last.
RECURSIVE UndoneNewestFirst(_)
UndoneNewestFirst(s) ==
    LET h == s.actionHistory IN
    IF h = <<>> THEN TRUE
    ELSE /\ undoLastAction(s).actionHistory = SubSeq(h, 1, Len(h) - 1)
         /\ UndoneNewestFirst(undoLastAction(s))

\* The Move records of a history, oldest first.
MovesOf(h) == SelectSeq(h, LAMBDA a : a.type = "move")

\* C32: with n records in the history of the running scene, n successive
\* undos remove them newest first, leave actionHistory empty and take
\* moveCount back by the number of Move records among them, to its value
\* before the first of those actions; the player ends where the oldest
\* recorded move started.
C32_UndoReversesHistory ==
    (world /\ ~gameOver /\ actionHistory # <<>>) =>
        LET u == UndoAll(State) IN
        /\ UndoneNewestFirst(State)
        /\ u.actionHistory = <<>>
        /\ u.moveCount = moveCount - MoveRecords(actionHistory)
        /\ MovesOf(actionHistory) # <<>> =>
              /\ IsSome(u.physicsObjects.player)
              /\ Val(u.physicsObjects.player).pos
                   = Head(MovesOf(actionHistory)).data.previousPosition

\* C32 witness: the history of the running scene holds a move and, after it,
\* the pickup of the key that move made spawn; undoing both gives the key item
\* back, removes the key and takes moveCount back by one.
C32_Witness ==
    /\ world /\ ~gameOver
    /\ Len(actionHistory) = 2
    /\ actionHistory[1].type = "move"
    /\ actionHistory[2].type = "keyPickup"
    /\ hasItem(inventory, "key")
    /\ ~hasItem(UndoAll(State).inventory, "key")
    /\ UndoAll(State).moveCount = moveCount - 1

\* C33: a click on a key that an undo respawned does what a click on the
\* originally spawned key does: one key item more in the inventory, one
\* KeyPickup record for the key's position appended to actionHistory, and the
\* session saved.
C33_RespawnedKeyActsLikeSpawned ==
    (lastOp = "keyPickup"
        /\ Val(Val(before).physicsObjects.key).onClick = "respawn") =>
        LET key == Val(Val(before).physicsObjects.key) IN
        /\ KeyCount(inventory) = KeyCount(Val(before).inventory) + 1
        /\ actionHistory = Append(Val(before).actionHistory, KeyPickupRecord(key.pos))
        /\ IsSome(storage)
        /\ Parse(Val(storage)).actionHistory = actionHistory

\* C33, the part that holds: the click on a respawned key adds one key item
\* and saves.
C33_RespawnedKeyAddsItem ==
    (lastOp = "keyPickup"
        /\ Val(Val(before).physicsObjects.key).onClick = "respawn") =>
        /\ KeyCount(inventory) = KeyCount(Val(before).inventory) + 1
        /\ actionHistory = Val(before).actionHistory
        /\ IsSome(storage)
        /\ Parse(Val(storage)).actionHistory = actionHistory

\* C34: moveCount is never negative and is at least the number of Move
\* records in actionHistory.
C34_MoveCountCoversHistory ==
    /\ moveCount >= 0
    /\ moveCount >= MoveRecords(actionHistory)

\* C34 witness: a scene change has emptied the history and left the count,
\* and a move made since has been undone: the count is above the number of
\* Move records.
C34_Witness ==
    /\ lastOp = "undoMove"
    /\ currentScene = 2
    /\ actionHistory = <<>>
    /\ moveCount > 0
    /\ moveCount = Val(before).moveCount - 1

\* The Move record a move started in session s is to leave.
PreMoveRecord(s) ==
    LET o == s.physicsObjects IN
    MoveRecord(Val(o.player).pos,
               IF IsSome(o.block) THEN Some(Val(o.block).pos) ELSE None,
               s.keySpawned)

\* C35: a click on the platform while gameOver is false moves the player only
\* if the click point is more than 0.1 away horizontally; an accepted move
\* appends exactly one Move record (the player's and the block's positions
\* before the move, the current keySpawned) and raises moveCount by exactly
\* one; a rejected click, and any click while gameOver is true, changes neither
\* actionHistory nor moveCount nor the save.
C35_MoveOnlyBeyondMinDistance ==
    /\ \A hitsKey \in BOOLEAN :
         \A clickPoint \in {Some(p) : p \in PlatformClicks(State)} :
           LET o == physicsObjects
               next == pointerDown(State, hitsKey, clickPoint)
               keyHit == hitsKey /\ KeyClickable(o)
               far == /\ IsSome(o.player)
                      /\ HorizontalDistSq(Val(clickPoint), Val(o.player).pos)
                            > Sq(MinMoveDistance)
           IN /\ (gameOver \/ (~keyHit /\ ~far)) =>
                    /\ next.physicsObjects = o
                    /\ next.actionHistory = actionHistory
                    /\ next.moveCount = moveCount
                    /\ next.storage = storage
              /\ (~gameOver /\ IsSome(o.platform) /\ ~keyHit /\ far) =>
                    /\ next.physicsObjects.player # o.player
                        \/ Moving(Val(o.player))
                    /\ next.actionHistory = Append(actionHistory, PreMoveRecord(State))
                    /\ next.moveCount = moveCount + 1
    /\ lastOp = "move" =>
         /\ ~Val(before).gameOver
         /\ actionHistory = Append(Val(before).actionHistory, PreMoveRecord(Val(before)))
         /\ moveCount = Val(before).moveCount + 1

\* C35 witness: an accepted move has just been recorded, and from the state
\* it left a click at exactly 0.1 from the player is among the clicks the
\* handler rejects.
C35_Witness ==
    /\ lastOp = "move"
    /\ moveCount = Val(before).moveCount + 1
    /\ ~gameOver
    /\ \E p \in NearClicks(physicsObjects) :
         /\ HorizontalDistSq(p, Val(physicsObjects.player).pos) = Sq(MinMoveDistance)
         /\ pointerDown(State, FALSE, Some(p)) = State

\* The key entities of the world: the key the scene holds, if any.
KeyEntities(o) == IF IsSome(o.key) THEN 1 ELSE 0

\* C36: across moves, key pickups and undos, the key items of the inventory
\* and the key entities of the world together never number more than one.
C36_AtMostOneKey ==
    KeyCount(inventory) + KeyEntities(physicsObjects) <= 1

\* The KeyPickup records of a history.
KeyPickupRecords(h) == Len(h) - MoveRecords(h)

\* C37: a Key instance is picked up at most once: whatever clicks it takes, it
\* adds at most one item to the inventory and at most one KeyPickup record,
\* and once it has been hit (or was built as picked up) a click on it invokes
\* nothing.
C37_KeyPickedUpOnce ==
    LET made == Val(before)
        key == Val(physicsObjects.key)
    IN /\ KeyCount(inventory) <= KeyCount(made.inventory) + 1
       /\ KeyPickupRecords(actionHistory) <= KeyPickupRecords(made.actionHistory) + 1
       /\ Val(made.physicsObjects.key).pickedUp =>
             /\ inventory = made.inventory
             /\ actionHistory = made.actionHistory
       /\ key.pickedUp =>
             /\ checkClick(State, TRUE).inventory = inventory
             /\ checkClick(State, TRUE).actionHistory = actionHistory

\* C37 witness: an instance the update loop spawned has been hit once, which
\* added its item and its record, and has been clicked again since.
C37_Witness ==
    /\ lastOp = "clickRefused"
    /\ ~Val(Val(before).physicsObjects.key).pickedUp
    /\ Val(physicsObjects.key).pickedUp
    /\ KeyCount(inventory) = KeyCount(Val(before).inventory) + 1
    /\ KeyPickupRecords(actionHistory)
          = KeyPickupRecords(Val(before).actionHistory) + 1

FreshCounters ==
    /\ currentScene = 1
    /\ ~gameOver
    /\ ~keySpawned
    /\ moveCount = 0
    /\ actionHistory = <<>>
    /\ inventory = <<>>
    /\ loseScreen = 0

====
